---- MODULE Spec2Model ----
(***************************************************************************)
(* Sync orchestrator of SyncRead: one sync session (progressive or full),  *)
(* the HTTP handlers that act on it (retry, progress, advance, pause,      *)
(* resume), the background runs startProgressiveSync, syncWordChunk and    *)
(* processSync, and the reader's auto-advance flag.                        *)
(* Every await of a handler or run that separates a                        *)
(* read of the session row from a later write is a separate step.          *)
(* Times are in tenths of a second, confidences in tenths.                 *)
(* Further specifications cover the library handlers over the tables of    *)
(* books, audiobooks and sessions (SpecLibrary), the temporary artefacts   *)
(* of a sync operation (SpecCleanup) and the audio chunker (SpecChunker).  *)
(***************************************************************************)
EXTENDS Integers, Sequences, FiniteSets, TLC

VARIABLES session, tasks, reply, requests, advanceRequested, lastSyncedWord,
          db, calls, response, nextId, artefacts, run, chunker, calc,
          debounce, now, validation, windows

\* one sync session, its background runs and the handlers acting on it
SessionVars ==
  <<session, tasks, reply, requests, advanceRequested, lastSyncedWord>>
\* the tables of the database and the library handlers in flight
LibraryVars == <<db, calls, response, nextId>>
\* the temporary artefacts of one sync operation
CleanupVars == <<artefacts, run>>
\* one call of the audio chunker
ChunkerVars == <<chunker>>

\* one call of the sync-point functions
CalcVars == <<calc>>
\* the debounce hook of the reader's playback position
DebounceVars == <<debounce>>
\* the clock of the database server, read by "new Date()"
ClockVars == <<now>>
\* one call of validateUploadFile
UploadVars == <<validation>>
\* one call of findTextMatches, up to its list of text windows
MatchVars == <<windows>>

vars == <<SessionVars, LibraryVars, CleanupVars, ChunkerVars, CalcVars,
         DebounceVars, ClockVars, UploadVars, MatchVars>>

\* what the steps of a sync session leave alone
NonSessionVars ==
  <<LibraryVars, CleanupVars, ChunkerVars, CalcVars, DebounceVars,
    ClockVars, UploadVars, MatchVars>>

----------------------------------------------------------------------------
(* Bounds of the model *)

\* number of handlers and background runs that can be in flight at once
MaxTasks == 3
\* number of words of the book (buildWordIndexMap(epub.textContent).length)
TotalWords == 1100
\* every word of the modelled book takes this many characters, space included
CharsPerWord == 6
\* number of pause, resume and retry requests the user sends
MaxRequests == 2
\* largest progressVersion a client sends
MaxVersion == 3
\* largest playback position (seconds) a client sends
MaxPosition == 3

\* number of library handlers that can be in flight at once
MaxCalls == 2
\* number of rows the library handlers insert
MaxRows == 2
\* number of requests the library handlers take
MaxLibraryRequests == 3
\* largest number of chunks the audio of a full sync is split into
MaxChunks == 2
\* duration of the audiobook in seconds (the book read at narration speed)
AudioDurationSec == 440

\* time units in one second: audio times are integers in this unit
TimeUnitsPerSec == 10

(* Program constants *)

NARRATION_SPEED_WPM == 150
DefaultWordChunkSize == 1000
FIRST_CHUNK_SIZE == 1000
FallbackChunkSize == 75
MergeWindowSec == 1
MergeWindowChars == 10

----------------------------------------------------------------------------
(* Values drawn by the environment *)

\* confidences the matcher can report: findTextMatches keeps only > 0.5
Confidences == {9}
\* index of the matched window inside the text slice it was searched in
MatchOffsets == {0}
\* start time of the Whisper segment the initial probe matched (within 45 s)
ProbeTimes == {5}
\* character index of the window the initial probe matched
ProbeIndexes == {150}

NoError == "null"
NoTask == [kind |-> "none", pc |-> "none", wordStart |-> 0, wordCount |-> 0,
           known |-> -1, snapSynced |-> 0, snapAnchors |-> <<>>,
           pos |-> 0, prog |-> 0, ver |-> 0,
           currentChunk |-> 0, totalChunks |-> 0, emptySegments |-> FALSE]
NoReply == [op |-> "none", res |-> "none"]

Slots == 1..MaxTasks

----------------------------------------------------------------------------
(* Pure helpers *)

Abs(x) == IF x < 0 THEN -x ELSE x
Min(a, b) == IF a < b THEN a ELSE b
Max(a, b) == IF a > b THEN a ELSE b

\* character position of word i; position i = TotalWords is the text length
WordMap(i) == i * CharsPerWord

\* the loop of startProgressiveSync that turns a character index into a word
StartWordIndex(textIndex) ==
  LET hits == {i \in 0..(TotalWords - 1) : WordMap(i) >= textIndex}
  IN IF hits = {} THEN 0 ELSE CHOOSE i \in hits : \A j \in hits : i <= j

\* startTimeSeconds of extractAudioByWordRange, in time units
WordRangeStartTime(wordStart) ==
  (wordStart * 60 * TimeUnitsPerSec) \div NARRATION_SPEED_WPM

Anchor(t, x, c) == [audioTime |-> t, textIndex |-> x, confidence |-> c]

\* Array.prototype.sort((a, b) => a.audioTime - b.audioTime): stable
RECURSIVE InsertByTime(_, _)
InsertByTime(sorted, a) ==
  IF sorted = <<>> THEN <<a>>
  ELSE IF a.audioTime < Head(sorted).audioTime THEN <<a>> \o sorted
  ELSE <<Head(sorted)>> \o InsertByTime(Tail(sorted), a)

RECURSIVE SortByTime(_)
SortByTime(s) ==
  IF s = <<>> THEN <<>>
  ELSE InsertByTime(SortByTime(SubSeq(s, 1, Len(s) - 1)), s[Len(s)])

\* the predicate of acc.find(...) in the duplicate removal
Near(a, b) ==
  /\ Abs(a.audioTime - b.audioTime) < MergeWindowSec * TimeUnitsPerSec
  /\ Abs(a.textIndex - b.textIndex) < MergeWindowChars

\* one step of the reduce: replace the first near anchor when the new one
\* is more confident, drop the new one otherwise, push when none is near
ReduceStep(acc, anchor) ==
  LET hits == {i \in 1..Len(acc) : Near(acc[i], anchor)}
  IN IF hits # {}
     THEN LET idx == CHOOSE i \in hits : \A j \in hits : i <= j
          IN IF anchor.confidence > acc[idx].confidence
             THEN [acc EXCEPT ![idx] = anchor]
             ELSE acc
     ELSE Append(acc, anchor)

RECURSIVE Reduce(_, _)
Reduce(acc, rest) ==
  IF rest = <<>> THEN acc ELSE Reduce(ReduceStep(acc, Head(rest)), Tail(rest))

\* mergedAnchors and uniqueAnchors of syncWordChunk
MergeAnchors(existingAnchors, adjustedMatches) ==
  Reduce(<<>>, SortByTime(existingAnchors \o adjustedMatches))

----------------------------------------------------------------------------
(* The session row and its update primitive *)

\* the row inserted by POST /api/sync/create for a progressive session
NewSession ==
  [status |-> "pending", progress |-> 0, currentStep |-> "extracting",
   error |-> NoError, syncedUpToWord |-> 0, syncAnchors |-> <<>>,
   progressVersion |-> 1, playbackPositionSec |-> 0, playbackProgress |-> 0,
   syncMode |-> "progressive", totalChunks |-> 1, currentChunk |-> 0,
   updatedAt |-> 0]

\* the row inserted for syncMode = "full"
NewFullSession == [NewSession EXCEPT !.syncMode = "full"]

\* DbStorage.updateSyncSession: set the given columns and updatedAt, keep
\* the others
Update(s, updates) ==
  [f \in DOMAIN s |-> IF f = "updatedAt" THEN now
                      ELSE IF f \in DOMAIN updates THEN updates[f] ELSE s[f]]

FreeSlots == {i \in Slots : tasks[i].kind = "none"}
FreeSlot == CHOOSE i \in FreeSlots : \A j \in FreeSlots : i <= j

StartTask == [NoTask EXCEPT !.kind = "start", !.pc = "init"]
FullTask == [NoTask EXCEPT !.kind = "full", !.pc = "init"]

\* "Start async processing based on sync mode"
SyncTask(s) == IF s.syncMode = "progressive" THEN StartTask ELSE FullTask
ChunkTask(wordStart, wordCount, known) ==
  [NoTask EXCEPT !.kind = "chunk", !.pc = "read", !.wordStart = wordStart,
                 !.wordCount = wordCount, !.known = known]

Reply(op, res) == [op |-> op, res |-> res]

ReaderVars == <<advanceRequested, lastSyncedWord>>
EnvVars == <<requests, advanceRequested, lastSyncedWord>>

UserRequest ==
  /\ requests < MaxRequests
  /\ requests' = requests + 1

----------------------------------------------------------------------------
(* The parts of the state a specification does not exercise stay idle *)

\* the tables epub_books, audiobooks and sync_sessions, empty
EmptyDb == [epubBooks |-> {}, audiobooks |-> {}, syncSessions |-> {}]

NoCall == [op |-> "none", pc |-> "none", kind |-> "none", user |-> "none",
           hash |-> "none", id |-> 0, epubId |-> 0, audioId |-> 0]
NoResponse == [op |-> "none", user |-> "none", status |-> 0, id |-> 0,
               data |-> <<>>]
CallSlots == 1..MaxCalls

\* one sync operation: whether the audio lives in object storage, whether
\* the file is above MAX_CHUNK_SIZE, the flag needsCleanup, the chunk list of
\* the splitter, the index of the chunk being transcribed and the outcome
NoRun == [mode |-> "none", pc |-> "none", stored |-> FALSE, large |-> FALSE,
          needsCleanup |-> FALSE, chunks |-> <<>>, chunk |-> 0,
          outcome |-> "none"]
\* one call of splitAudioIntoChunks: the audio file (its duration in seconds,
\* its bytes per second, whether it is an .m4b, whether the probes of duration
\* and bitrate succeed), the chunk duration chosen, the loop variable
\* currentTime and the chunk list
NoChunking == [pc |-> "none", duration |-> 0, rate |-> 0, m4b |-> FALSE,
               durationKnown |-> FALSE, bitrateKnown |-> FALSE,
               chunkDuration |-> 0, currentTime |-> 0, chunks |-> <<>>]

IdleLibrary ==
  /\ db = EmptyDb
  /\ calls = [c \in CallSlots |-> NoCall]
  /\ response = NoResponse
  /\ nextId = 1

IdleCleanup == artefacts = {} /\ run = NoRun

IdleChunker == chunker = NoChunking

\* one call: the audio duration, the text length and the anchors passed in,
\* the sync points built, the audio time looked up and the text index found
NoCalc == [pc |-> "none", duration |-> 0, textLength |-> 0, anchors |-> <<>>,
           points |-> <<>>, audioTime |-> 0, textIndex |-> 0]

IdleCalc == calc = NoCalc

\* lastValueRef and timeoutRef hold null
NoValue == -1
NoTimeout == -1
\* the hook and the player: whether the audio plays, its currentTime (s),
\* lastValueRef, the time left on timeoutRef's timer (s), isFlushingRef, the
\* value onFlush is posting, the last position posted, and how long (s) the
\* position in lastValueRef has been waiting since it was first scheduled;
\* now is the time (s) since the reader was opened
NoDebounce == [isPlaying |-> FALSE, currentTime |-> 0, lastValue |-> NoValue,
               timeout |-> NoTimeout, isFlushing |-> FALSE,
               valueToFlush |-> NoValue, persisted |-> NoValue,
               waited |-> 0, now |-> 0]

IdleDebounce == debounce = NoDebounce

\* no time passes
IdleClock == now = 0

\* one call: the kind, the file (name, size in bytes, MIME type) and the
\* result
NoValidation == [pc |-> "none", kind |-> "none", name |-> <<>>, size |-> 0,
                 type |-> "", valid |-> FALSE, error |-> "none"]

IdleUpload == validation = NoValidation

\* one call: the text, the loop variable i and the list chunks
NoWindows ==
  [pc |-> "none", text |-> <<>>, words |-> <<>>, i |-> 0, chunks |-> <<>>]

IdleMatch == windows = NoWindows

----------------------------------------------------------------------------
(* Initial state: the session was just created and its background sync    *)
(* (startProgressiveSync or processSync) has been called.                  *)

Init ==
  /\ session \in {NewSession, NewFullSession}
  /\ tasks = [i \in Slots |-> IF i = 1 THEN SyncTask(session) ELSE NoTask]
  /\ reply = NoReply
  /\ requests = 0
  /\ advanceRequested = FALSE
  /\ lastSyncedWord = 0
  /\ IdleLibrary /\ IdleCleanup /\ IdleChunker /\ IdleCalc
  /\ IdleDebounce /\ IdleClock
  /\ IdleUpload /\ IdleMatch

----------------------------------------------------------------------------
(* startProgressiveSync *)

\* the first write of startProgressiveSync
StartUpdates == [status |-> "processing", currentStep |-> "transcribing"]

StartSetProcessing(i) ==
  /\ tasks[i].kind = "start" /\ tasks[i].pc = "init"
  /\ session' = Update(session, StartUpdates)
  /\ tasks' = [tasks EXCEPT ![i].pc = "probe"]
  /\ UNCHANGED <<reply, EnvVars, NonSessionVars>>

\* findInitialAlignment returned null: fall back to the first 75 words
StartProbeNone(i) ==
  /\ tasks[i].kind = "start" /\ tasks[i].pc = "probe"
  /\ tasks' = [tasks EXCEPT ![i] = ChunkTask(0, FallbackChunkSize, -1)]
  /\ UNCHANGED <<session, reply, EnvVars, NonSessionVars>>

\* findInitialAlignment found a match: seed the anchor list with it and
\* sync the first chunk from the matched word at the matched audio time
StartProbeFound(i, t, x, c) ==
  /\ tasks[i].kind = "start" /\ tasks[i].pc = "probe"
  /\ session' = Update(session, [syncAnchors |-> <<Anchor(t, x, c)>>])
  /\ tasks' = [tasks EXCEPT ![i] =
                  ChunkTask(StartWordIndex(x), FIRST_CHUNK_SIZE, t)]
  /\ UNCHANGED <<reply, EnvVars, NonSessionVars>>

\* the download or the probe threw: the catch block of startProgressiveSync
StartFail(i) ==
  /\ tasks[i].kind = "start" /\ tasks[i].pc = "probe"
  /\ session' = Update(session, [status |-> "error", error |-> "start"])
  /\ tasks' = [tasks EXCEPT ![i] = NoTask]
  /\ reply' = Reply("start", "false")
  /\ UNCHANGED <<EnvVars, NonSessionVars>>

----------------------------------------------------------------------------
(* syncWordChunk *)

\* the guard "Don't proceed if session is paused"
ChunkRefusesNever(s) == FALSE
ChunkRefuses(s) == s.status = "paused"

ActualStart(wordStart) == Max(0, Min(wordStart, TotalWords))
ActualEnd(wordStart, wordCount) == Min(TotalWords, wordStart + wordCount)

\* the run read a paused session: return false
ChunkRefuse(i) ==
  /\ tasks[i].kind = "chunk" /\ tasks[i].pc = "read"
  /\ ChunkRefuses(session)
  /\ tasks' = [tasks EXCEPT ![i] = NoTask]
  /\ reply' = Reply("chunk", "false")
  /\ UNCHANGED <<session, EnvVars, NonSessionVars>>

\* the run reads the session row and clamps its word range; an empty range
\* returns false
ChunkRead(i) ==
  /\ tasks[i].kind = "chunk" /\ tasks[i].pc = "read"
  /\ ~ChunkRefuses(session)
  /\ LET actualStart == ActualStart(tasks[i].wordStart)
         actualEnd == ActualEnd(tasks[i].wordStart, tasks[i].wordCount)
     IN IF actualEnd - actualStart <= 0
        THEN /\ tasks' = [tasks EXCEPT ![i] = NoTask]
             /\ reply' = Reply("chunk", "false")
        ELSE /\ tasks' = [tasks EXCEPT ![i].pc = "work",
                                       ![i].wordStart = actualStart,
                                       ![i].wordCount = actualEnd - actualStart,
                                       ![i].snapSynced = session.syncedUpToWord,
                                       ![i].snapAnchors = session.syncAnchors]
             /\ UNCHANGED reply
  /\ UNCHANGED <<session, EnvVars, NonSessionVars>>

\* audio time of the anchors of a run: the start of the extracted segment
SegmentStartTime(t) ==
  IF t.known >= 0 THEN t.known ELSE WordRangeStartTime(t.wordStart)

\* the matches a run can find, already moved to global text indices
PossibleMatches(t) ==
  {<<>>} \cup
  {<<Anchor(SegmentStartTime(t), WordMap(t.wordStart) + off, c)>> :
     off \in MatchOffsets, c \in Confidences}

\* updateData of syncWordChunk
CommitUpdates(t, matches) ==
  LET actualEnd == t.wordStart + t.wordCount
      anchors == [syncAnchors |-> MergeAnchors(t.snapAnchors, matches)]
  IN IF actualEnd > t.snapSynced
     THEN IF actualEnd >= TotalWords
          THEN anchors @@ [syncedUpToWord |-> actualEnd, progress |-> 100,
                           status |-> "complete", currentStep |-> "complete"]
          ELSE anchors @@ [syncedUpToWord |-> actualEnd,
                           progress |-> (actualEnd * 100) \div TotalWords]
     ELSE anchors

ChunkCommit(i, matches) ==
  /\ tasks[i].kind = "chunk" /\ tasks[i].pc = "work"
  /\ matches \in PossibleMatches(tasks[i])
  /\ session' = Update(session, CommitUpdates(tasks[i], matches))
  /\ tasks' = [tasks EXCEPT ![i] = NoTask]
  /\ reply' = Reply("chunk", "true")
  /\ UNCHANGED <<EnvVars, NonSessionVars>>

\* anything between the read and the commit threw: the catch block
ChunkFail(i) ==
  /\ tasks[i].kind = "chunk" /\ tasks[i].pc = "work"
  /\ session' = Update(session, [status |-> "error", error |-> "chunk"])
  /\ tasks' = [tasks EXCEPT ![i] = NoTask]
  /\ reply' = Reply("chunk", "false")
  /\ UNCHANGED <<EnvVars, NonSessionVars>>

----------------------------------------------------------------------------
(* calculateSyncPoints *)

MIN_TIME_GAP == 30
MIN_TEXT_GAP == 500

\* [...anchors].sort((a, b) => b.confidence - a.confidence): stable
RECURSIVE InsertByConfidence(_, _)
InsertByConfidence(sorted, a) ==
  IF sorted = <<>> THEN <<a>>
  ELSE IF a.confidence > Head(sorted).confidence THEN <<a>> \o sorted
  ELSE <<Head(sorted)>> \o InsertByConfidence(Tail(sorted), a)

RECURSIVE SortByConfidence(_)
SortByConfidence(s) ==
  IF s = <<>> THEN <<>>
  ELSE InsertByConfidence(SortByConfidence(SubSeq(s, 1, Len(s) - 1)), s[Len(s)])

HasOverlap(selected, anchor) ==
  \E i \in 1..Len(selected) :
     \/ Abs(selected[i].audioTime - anchor.audioTime)
           < MIN_TIME_GAP * TimeUnitsPerSec
     \/ Abs(selected[i].textIndex - anchor.textIndex) < MIN_TEXT_GAP

\* "Take top anchors (filter out overlapping ones)"
RECURSIVE SelectAnchors(_, _)
SelectAnchors(selected, rest) ==
  IF rest = <<>> THEN selected
  ELSE SelectAnchors(IF HasOverlap(selected, Head(rest)) THEN selected
                     ELSE Append(selected, Head(rest)),
                     Tail(rest))

SyncPoint(t, x) == [audioTime |-> t, textIndex |-> x]

CalculateSyncPoints(anchors, totalDuration, totalTextLength) ==
  IF anchors = <<>>
  THEN <<SyncPoint(0, 0), SyncPoint(totalDuration, totalTextLength)>>
  ELSE LET selectedAnchors ==
             SortByTime(SelectAnchors(<<>>, SortByConfidence(anchors)))
           lastAnchor == selectedAnchors[Len(selectedAnchors)]
       IN (IF selectedAnchors[1].audioTime > 5 * TimeUnitsPerSec
           THEN <<SyncPoint(0, 0)>> ELSE <<>>)
          \o [i \in 1..Len(selectedAnchors) |->
                SyncPoint(selectedAnchors[i].audioTime,
                          selectedAnchors[i].textIndex)]
          \o (IF lastAnchor.audioTime
                   < totalDuration - 30 * TimeUnitsPerSec
              THEN <<SyncPoint(totalDuration, totalTextLength)>> ELSE <<>>)

----------------------------------------------------------------------------
(* processSync: the background run of a full sync *)

\* audio.duration of the modelled audiobook, in time units
AudioDuration == AudioDurationSec * TimeUnitsPerSec
\* epub.textContent.length
TextLength == WordMap(TotalWords)

\* what findTextMatches can return for the chunk transcriptions
FullMatches ==
  {<<>>} \cup {<<Anchor(t, x, c)>> :
                 t \in {0, 100 * TimeUnitsPerSec}, x \in {0, 1500},
                 c \in Confidences}

\* "Ensure we have anchors at start and end", for an audiobook of the given
\* duration and a book of the given text length
AllMatchesOf(matches, duration, textLength) ==
  LET withStart == IF matches = <<>> \/ matches[1].audioTime > 0
                   THEN <<Anchor(0, 0, 10)>> \o matches ELSE matches
  IN IF withStart[Len(withStart)].audioTime < duration
     THEN Append(withStart, Anchor(duration, textLength, 10))
     ELSE withStart

AllMatches(matches) == AllMatchesOf(matches, AudioDuration, TextLength)

\* the anchors the run commits: the sync points, each with confidence 0.9
FullAnchorsOf(matches, duration, textLength) ==
  LET syncPoints ==
        CalculateSyncPoints(AllMatchesOf(matches, duration, textLength),
                            duration, textLength)
  IN [i \in 1..Len(syncPoints) |->
        Anchor(syncPoints[i].audioTime, syncPoints[i].textIndex, 9)]

\* the anchors of every outcome of the matching, computed once
FullAnchorsTable ==
  [m \in FullMatches |-> FullAnchorsOf(m, AudioDuration, TextLength)]

FullAnchors(matches) == FullAnchorsTable[matches]

FullAt(i, pc) == tasks[i].kind = "full" /\ tasks[i].pc = pc

FullWrite(i, pc, updates) ==
  /\ session' = Update(session, updates)
  /\ tasks' = [tasks EXCEPT ![i].pc = pc]
  /\ UNCHANGED <<reply, EnvVars, NonSessionVars>>

FullStart(i) ==
  /\ FullAt(i, "init")
  /\ FullWrite(i, "read", [status |-> "processing",
                          currentStep |-> "extracting", progress |-> 10])

\* the book or the audiobook of the session is gone
FullMissingUpdatesNoStatus == [error |-> "EPUB or audiobook not found"]
FullMissingUpdates ==
  [status |-> "error", error |-> "EPUB or audiobook not found"]

FullMissing(i) ==
  /\ FullAt(i, "read")
  /\ session' = Update(session, FullMissingUpdates)
  /\ tasks' = [tasks EXCEPT ![i] = NoTask]
  /\ reply' = Reply("full", "missing")
  /\ UNCHANGED <<EnvVars, NonSessionVars>>

FullSegmenting(i) ==
  /\ FullAt(i, "read")
  /\ FullWrite(i, "segmenting", [currentStep |-> "segmenting", progress |-> 20])

FullTranscribing(i) ==
  /\ FullAt(i, "segmenting")
  /\ FullWrite(i, "split", [currentStep |-> "transcribing", progress |-> 30])

\* onInit of transcribeWithChunking: the audio was split into n chunks
FullInit(i, n) ==
  /\ FullAt(i, "split")
  /\ session' = Update(session, [totalChunks |-> n, currentChunk |-> 0,
                                 progress |-> 35])
  /\ tasks' = [tasks EXCEPT ![i].pc = "chunks", ![i].totalChunks = n,
                            ![i].currentChunk = 0]
  /\ UNCHANGED <<reply, EnvVars, NonSessionVars>>

\* number of segments in the verbose_json transcription of one chunk
SegmentCounts == {0, 1}

\* transcribeAudioSegment returned for the next chunk with this many
\* segments; its text is pushed and onProgress writes the chunk count
FullProgress(i, segments) ==
  /\ FullAt(i, "chunks")
  /\ tasks[i].currentChunk < tasks[i].totalChunks
  /\ LET currentChunk == tasks[i].currentChunk + 1
         totalChunks == tasks[i].totalChunks
     IN /\ session' = Update(session,
              [currentChunk |-> currentChunk, totalChunks |-> totalChunks,
               progress |-> 35 + (currentChunk * 35) \div totalChunks])
        /\ tasks' = [tasks EXCEPT
              ![i].currentChunk = currentChunk,
              ![i].emptySegments = @ \/ segments = 0]
  /\ UNCHANGED <<reply, EnvVars, NonSessionVars>>

FullMatching(i) ==
  /\ FullAt(i, "chunks")
  /\ tasks[i].currentChunk = tasks[i].totalChunks
  /\ FullWrite(i, "matching", [currentStep |-> "matching", progress |-> 75])

FullCompleteUpdates(matches) ==
  [status |-> "complete", currentStep |-> "complete", progress |-> 100,
   syncAnchors |-> FullAnchors(matches)]

FullComplete(i, matches) ==
  /\ FullAt(i, "matching")
  /\ session' = Update(session, FullCompleteUpdates(matches))
  /\ tasks' = [tasks EXCEPT ![i] = NoTask]
  /\ reply' = Reply("full", "complete")
  /\ UNCHANGED <<EnvVars, NonSessionVars>>

\* the outer catch of processSync
FullFailUpdatesNoMessage == [status |-> "error", error |-> NoError]
FullFailUpdates == [status |-> "error", error |-> "Processing failed"]

FullFail(i) ==
  /\ tasks[i].kind = "full" /\ tasks[i].pc # "init"
  /\ session' = Update(session, FullFailUpdates)
  /\ tasks' = [tasks EXCEPT ![i] = NoTask]
  /\ reply' = Reply("full", "failed")
  /\ UNCHANGED <<EnvVars, NonSessionVars>>

----------------------------------------------------------------------------
(* HTTP handlers on the session *)

\* POST /api/sync/:id/pause
PauseUpdatesStep == [status |-> "paused", currentStep |-> "complete"]
PauseUpdates == [status |-> "paused"]

\* "Check if session uses progressive sync"
IsProgressive(s) == s.syncMode = "progressive"

Pause ==
  /\ IsProgressive(session)
  /\ session' = Update(session, PauseUpdates)
  /\ reply' = Reply("pause", "ok")
  /\ UNCHANGED <<tasks, ReaderVars, NonSessionVars>>
  /\ UserRequest

\* pause, resume or advance of a session that is not progressive: 400
ModeReject(op) ==
  /\ ~IsProgressive(session)
  /\ reply' = Reply(op, "rejected")
  /\ UNCHANGED <<session, tasks, ReaderVars, NonSessionVars>>
  /\ UserRequest

\* POST /api/sync/:id/resume: "Check if session is paused"
ResumeAccepts(s) == IsProgressive(s) /\ s.status = "paused"

ResumeReject ==
  /\ ~ResumeAccepts(session)
  /\ reply' = Reply("resume", "rejected")
  /\ UNCHANGED <<session, tasks, ReaderVars, NonSessionVars>>
  /\ UserRequest

\* the handler read a paused session; its write comes after an await
ResumeRead ==
  /\ ResumeAccepts(session)
  /\ FreeSlots # {}
  /\ tasks' = [tasks EXCEPT ![FreeSlot] =
                  [NoTask EXCEPT !.kind = "resume", !.pc = "write",
                                 !.snapSynced = session.syncedUpToWord]]
  /\ reply' = Reply("resume", "accepted")
  /\ UNCHANGED <<session, ReaderVars, NonSessionVars>>
  /\ UserRequest

\* the chunk runs the resume handler starts, from the session it read
ResumeSchedules(t) ==
  IF t.snapSynced < TotalWords
  THEN ChunkTask(t.snapSynced, DefaultWordChunkSize, -1)
  ELSE NoTask

ResumeWrite(i) ==
  /\ tasks[i].kind = "resume" /\ tasks[i].pc = "write"
  /\ session' = Update(session, [status |-> "processing"])
  /\ tasks' = [tasks EXCEPT ![i] = ResumeSchedules(tasks[i])]
  /\ reply' = Reply("resume", "ok")
  /\ UNCHANGED <<EnvVars, NonSessionVars>>

\* POST /api/sync/:id/retry: "Only retry if session is in error state"
RetryAccepts(s) == s.status = "error"

RetryReject ==
  /\ ~RetryAccepts(session)
  /\ reply' = Reply("retry", "rejected")
  /\ UNCHANGED <<session, tasks, ReaderVars, NonSessionVars>>
  /\ UserRequest

RetryRead ==
  /\ RetryAccepts(session)
  /\ FreeSlots # {}
  /\ tasks' = [tasks EXCEPT ![FreeSlot] =
                  [NoTask EXCEPT !.kind = "retry", !.pc = "write"]]
  /\ reply' = Reply("retry", "accepted")
  /\ UNCHANGED <<session, ReaderVars, NonSessionVars>>
  /\ UserRequest

\* "Reset session to pending state"
RetryUpdatesKeepError ==
  [status |-> "pending", progress |-> 0, currentStep |-> "extracting"]
RetryUpdates ==
  [status |-> "pending", progress |-> 0, currentStep |-> "extracting",
   error |-> NoError]

\* the reset, then the background sync of the session's mode is called
RetryWrite(i) ==
  /\ tasks[i].kind = "retry" /\ tasks[i].pc = "write"
  /\ session' = Update(session, RetryUpdates)
  /\ tasks' = [tasks EXCEPT ![i] = SyncTask(session')]
  /\ reply' = Reply("retry", "ok")
  /\ UNCHANGED <<EnvVars, NonSessionVars>>

----------------------------------------------------------------------------
(* The reader's auto-advance effect and POST /api/sync/:id/advance *)

\* the effect does nothing for a complete or paused session, nor before
\* the first chunk or after the last
ReaderMayAdvance(s) ==
  /\ s.status \notin {"complete", "paused"}
  /\ s.syncedUpToWord > 0
  /\ s.syncedUpToWord < TotalWords

\* the POST of the effect while its promise is pending, when it will reject
AdvanceTask == [NoTask EXCEPT !.kind = "advance", !.pc = "rejected"]

\* the effect runs on a freshly polled session: it clears the flag when the
\* synced frontier grew and, when the reader is within the threshold of the
\* frontier (near) and the flag is clear, sets it and posts an advance; the
\* advance handler reads the frontier and starts syncWordChunk from it
\* (accepted), or the request fails and its promise rejects later
ReaderEffect(near, accepted) ==
  /\ IsProgressive(session)
  /\ session.status \notin {"complete", "paused"}
  /\ LET grew == session.syncedUpToWord > lastSyncedWord
         flag == IF grew THEN FALSE ELSE advanceRequested
         request == near /\ ReaderMayAdvance(session) /\ ~flag
     IN /\ grew \/ request
        /\ lastSyncedWord' = IF grew THEN session.syncedUpToWord
                                      ELSE lastSyncedWord
        /\ IF request
           THEN /\ FreeSlots # {}
                /\ advanceRequested' = TRUE
                /\ tasks' = [tasks EXCEPT ![FreeSlot] =
                       IF accepted
                       THEN ChunkTask(session.syncedUpToWord,
                                      DefaultWordChunkSize, -1)
                       ELSE AdvanceTask]
                /\ reply' = IF accepted THEN Reply("advance", "ok") ELSE reply
           ELSE /\ accepted
                /\ advanceRequested' = flag
                /\ UNCHANGED <<tasks, reply>>
  /\ UNCHANGED <<session, requests, NonSessionVars>>

\* ".catch(err => { ...; advanceRequestedRef.current = false; })"
AdvanceCatch(i) ==
  /\ tasks[i].kind = "advance" /\ tasks[i].pc = "rejected"
  /\ advanceRequested' = FALSE
  /\ tasks' = [tasks EXCEPT ![i] = NoTask]
  /\ reply' = Reply("advance", "failed")
  /\ UNCHANGED <<session, requests, lastSyncedWord, NonSessionVars>>

----------------------------------------------------------------------------
(* The orchestrator specification *)

TaskStep(i) ==
  \/ StartSetProcessing(i)
  \/ StartProbeNone(i)
  \/ \E t \in ProbeTimes, x \in ProbeIndexes, c \in Confidences :
        StartProbeFound(i, t, x, c)
  \/ StartFail(i)
  \/ ChunkRefuse(i)
  \/ ChunkRead(i)
  \/ \E m \in PossibleMatches(tasks[i]) : ChunkCommit(i, m)
  \/ ChunkFail(i)
  \/ ResumeWrite(i)
  \/ RetryWrite(i)
  \/ FullStart(i)
  \/ FullMissing(i)
  \/ FullSegmenting(i)
  \/ FullTranscribing(i)
  \/ \E n \in 1..MaxChunks : FullInit(i, n)
  \/ (\E segments \in SegmentCounts : FullProgress(i, segments))
  \/ FullMatching(i)
  \/ \E m \in FullMatches : FullComplete(i, m)
  \/ FullFail(i)

Next ==
  \/ \E i \in Slots : TaskStep(i)
  \/ Pause
  \/ ResumeReject
  \/ ResumeRead
  \/ RetryReject
  \/ RetryRead
  \/ \E op \in {"pause", "resume"} : ModeReject(op)
  \/ \E near \in BOOLEAN, accepted \in BOOLEAN : ReaderEffect(near, accepted)
  \/ \E i \in Slots : AdvanceCatch(i)

Spec == Init /\ [][Next]_vars

TypeOK ==
  /\ session.status \in {"pending", "processing", "paused", "complete", "error"}
  /\ session.syncedUpToWord \in 0..TotalWords
  /\ session.progress \in 0..100

----------------------------------------------------------------------------
(* POST /api/sync/:id/progress, checked on its own: the handler touches    *)
(* only the playback columns and progressVersion of the row.               *)

\* durationSec values a client sends; 0 stands for a missing duration
Durations == {0, 2}
\* progressVersion values a client sends; 0 stands for a missing version
Versions == 0..MaxVersion
\* audiobooks.duration (seconds) of the audiobook of the session: a client
\* can send positions past the end of the audio
PlayedAudioDuration == MaxPosition - 1

\* positionSec must be a number >= 0
ProgressValid(positionSec) == positionSec >= 0

ProgressReject(positionSec) ==
  /\ ~ProgressValid(positionSec)
  /\ reply' = Reply("progress", "rejected")
  /\ UNCHANGED <<session, tasks, ReaderVars, NonSessionVars>>
  /\ UserRequest

\* does the handler put progressVersion into its updates
TakesVersion(progressVersion, stored) == progressVersion > stored

\* the handler validated the request and read the session; it has built
\* its updates from the row it read and awaits the write
ProgressRead(positionSec, durationSec, progressVersion) ==
  /\ ProgressValid(positionSec)
  /\ FreeSlots # {}
  /\ LET playbackPositionSec ==
           IF durationSec > 0 THEN Min(positionSec, durationSec)
                              ELSE positionSec
         playbackProgress ==
           IF durationSec > 0
           THEN Min(100, Max(0, (playbackPositionSec * 100) \div durationSec))
           ELSE 0
     IN tasks' = [tasks EXCEPT ![FreeSlot] =
          [NoTask EXCEPT !.kind = "progress", !.pc = "write",
             !.pos = playbackPositionSec, !.prog = playbackProgress,
             !.ver = IF TakesVersion(progressVersion, session.progressVersion)
                     THEN progressVersion ELSE 0]]
  /\ reply' = Reply("progress", "accepted")
  /\ UNCHANGED <<session, ReaderVars, NonSessionVars>>
  /\ UserRequest

ProgressUpdates(t) ==
  IF t.ver > 0
  THEN [playbackPositionSec |-> t.pos, playbackProgress |-> t.prog,
        progressVersion |-> t.ver]
  ELSE [playbackPositionSec |-> t.pos, playbackProgress |-> t.prog]

ProgressWrite(i) ==
  /\ tasks[i].kind = "progress" /\ tasks[i].pc = "write"
  /\ session' = Update(session, ProgressUpdates(tasks[i]))
  /\ tasks' = [tasks EXCEPT ![i] = NoTask]
  /\ reply' = Reply("progress", "ok")
  /\ UNCHANGED <<EnvVars, NonSessionVars>>

InitProgress ==
  /\ session = NewSession
  /\ tasks = [i \in Slots |-> NoTask]
  /\ reply = NoReply
  /\ requests = 0
  /\ advanceRequested = FALSE
  /\ lastSyncedWord = 0
  /\ IdleLibrary /\ IdleCleanup /\ IdleChunker /\ IdleCalc
  /\ IdleDebounce /\ IdleClock
  /\ IdleUpload /\ IdleMatch

NextProgress ==
  \/ \E p \in -1..MaxPosition : ProgressReject(p)
  \/ \E p \in -1..MaxPosition, d \in Durations, v \in Versions :
        ProgressRead(p, d, v)
  \/ \E i \in Slots : ProgressWrite(i)

SpecProgress == InitProgress /\ [][NextProgress]_vars

----------------------------------------------------------------------------
(* The anchor merge, checked on its own: runs of one session that commit   *)
(* one after the other, each merging one match into the stored list.  The  *)
(* audio time of a match is the start of its audio segment or the start of *)
(* a Whisper segment of the probe, its text index the index of the matched *)
(* window.                                                                 *)

\* longest anchor list the runs build
MaxAnchors == 3
MergeTimes == {0, 5, 9, 20}
MergeIndexes == {0, 5, 12, 100}
MergeConfidences == {6, 9}

MergeCommit(t, x, c) ==
  /\ Len(session.syncAnchors) < MaxAnchors
  /\ session' = Update(session,
        [syncAnchors |-> MergeAnchors(session.syncAnchors, <<Anchor(t, x, c)>>)])
  /\ reply' = Reply("chunk", "true")
  /\ UNCHANGED <<tasks, EnvVars, NonSessionVars>>

InitMerge ==
  /\ session = [NewSession EXCEPT !.status = "processing"]
  /\ tasks = [i \in Slots |-> NoTask]
  /\ reply = NoReply
  /\ requests = 0
  /\ advanceRequested = FALSE
  /\ lastSyncedWord = 0
  /\ IdleLibrary /\ IdleCleanup /\ IdleChunker /\ IdleCalc
  /\ IdleDebounce /\ IdleClock
  /\ IdleUpload /\ IdleMatch

NextMerge ==
  \E t \in MergeTimes, x \in MergeIndexes, c \in MergeConfidences :
     MergeCommit(t, x, c)

SpecMerge == InitMerge /\ [][NextMerge]_vars

----------------------------------------------------------------------------
(* The library: the tables of the database and the handlers that insert,   *)
(* read and delete books, audiobooks and sync sessions.  Every await       *)
(* between a read of a table and a later write is a separate step.         *)

Users == {"u1", "u2"}
Hashes == {"h1"}
Ids == 1..MaxRows
BookKinds == {"epub", "audio"}

\* the table of a kind of book
TableOf(kind) == IF kind = "epub" THEN "epubBooks" ELSE "audiobooks"

BookRow(id, userId, contentHash) ==
  [id |-> id, userId |-> userId, contentHash |-> contentHash]
SessionRow(id, userId, epubId, audioId) ==
  [id |-> id, userId |-> userId, epubId |-> epubId, audioId |-> audioId]

\* findEpubByHash, findAudiobookByHash
FindByHash(kind, userId, contentHash) ==
  {b \in db[TableOf(kind)] : b.userId = userId /\ b.contentHash = contentHash}
\* getEpubBook, getAudiobook
GetBookRow(kind, id) == {b \in db[TableOf(kind)] : b.id = id}
\* getSyncSession
GetSyncSession(id) == {r \in db.syncSessions : r.id = id}
\* getSyncSessionByFiles
GetSyncSessionByFiles(epubId, audioId, userId) ==
  {r \in db.syncSessions :
     r.epubId = epubId /\ r.audioId = audioId /\ r.userId = userId}

FreeCalls == {c \in CallSlots : calls[c].op = "none"}
FreeCall == CHOOSE c \in FreeCalls : \A d \in FreeCalls : c <= d
\* the calls that have passed their lookup and will insert a row
Inserting == {c \in CallSlots : calls[c].pc \in {"create", "insert"}}
\* a row id is left for one more insert
RowLeft == nextId + Cardinality(Inserting) <= MaxRows

Respond(op, user, status, id, data) ==
  [op |-> op, user |-> user, status |-> status, id |-> id, data |-> data]

LibraryFrame ==
  UNCHANGED <<session, tasks, reply, advanceRequested, lastSyncedWord,
              CleanupVars, ChunkerVars, CalcVars, DebounceVars,
              ClockVars,
              UploadVars, MatchVars>>

\* a handler takes a new request
LibraryRequest ==
  /\ requests < MaxLibraryRequests
  /\ requests' = requests + 1
  /\ LibraryFrame

\* a handler in flight goes on after an await
LibraryStep == UNCHANGED requests /\ LibraryFrame

\* POST /api/upload/epub and /api/upload/audio: the handler looks the file
\* up by (user, hash) and returns the record it finds
UploadFound(kind, u, h) ==
  /\ \E b \in FindByHash(kind, u, h) :
        response' = Respond("upload", u, 200, b.id, b)
  /\ UNCHANGED <<db, calls, nextId>>
  /\ LibraryRequest

\* ... or parses the file and calls createEpubBook / createAudiobook
UploadNew(kind, u, h) ==
  /\ FindByHash(kind, u, h) = {}
  /\ FreeCalls # {} /\ RowLeft
  /\ calls' = [calls EXCEPT ![FreeCall] =
        [NoCall EXCEPT !.op = "upload", !.pc = "create", !.kind = kind,
                       !.user = u, !.hash = h]]
  /\ UNCHANGED <<db, response, nextId>>
  /\ LibraryRequest

\* createEpubBook / createAudiobook: "if (existing) return existing"
CreateBookExisting(c) ==
  /\ calls[c].op = "upload" /\ calls[c].pc = "create"
  /\ \E b \in FindByHash(calls[c].kind, calls[c].user, calls[c].hash) :
        response' = Respond("upload", calls[c].user, 200, b.id, b)
  /\ calls' = [calls EXCEPT ![c] = NoCall]
  /\ UNCHANGED <<db, nextId>>
  /\ LibraryStep

\* the lookup of createEpubBook / createAudiobook found nothing
CreateBookLookedUp(c) ==
  /\ calls[c].op = "upload" /\ calls[c].pc = "create"
  /\ FindByHash(calls[c].kind, calls[c].user, calls[c].hash) = {}
  /\ calls' = [calls EXCEPT ![c].pc = "insert"]
  /\ UNCHANGED <<db, response, nextId>>
  /\ LibraryStep

\* db.insert(...).values(...).returning()
InsertRow(table, row) == [db EXCEPT ![table] = @ \cup {row}]

CreateBookInsert(c) ==
  /\ calls[c].op = "upload" /\ calls[c].pc = "insert"
  /\ LET row == BookRow(nextId, calls[c].user, calls[c].hash)
     IN /\ db' = InsertRow(TableOf(calls[c].kind), row)
        /\ response' = Respond("upload", calls[c].user, 200, row.id, row)
  /\ nextId' = nextId + 1
  /\ calls' = [calls EXCEPT ![c] = NoCall]
  /\ LibraryStep

\* POST /api/sync/create: "Check if session already exists for this user"
CreateSessionExisting(u, epubId, audioId) ==
  /\ \E r \in GetSyncSessionByFiles(epubId, audioId, u) :
        response' = Respond("create", u, 200, r.id, r)
  /\ UNCHANGED <<db, calls, nextId>>
  /\ LibraryRequest

CreateSessionLookedUp(u, epubId, audioId) ==
  /\ GetSyncSessionByFiles(epubId, audioId, u) = {}
  /\ FreeCalls # {} /\ RowLeft
  /\ calls' = [calls EXCEPT ![FreeCall] =
        [NoCall EXCEPT !.op = "create", !.pc = "insert", !.user = u,
                       !.epubId = epubId, !.audioId = audioId]]
  /\ UNCHANGED <<db, response, nextId>>
  /\ LibraryRequest

\* createSyncSession
CreateSessionInsert(c) ==
  /\ calls[c].op = "create" /\ calls[c].pc = "insert"
  /\ LET row == SessionRow(nextId, calls[c].user, calls[c].epubId,
                           calls[c].audioId)
     IN /\ db' = InsertRow("syncSessions", row)
        /\ response' = Respond("create", calls[c].user, 200, row.id, row)
  /\ nextId' = nextId + 1
  /\ calls' = [calls EXCEPT ![c] = NoCall]
  /\ LibraryStep

\* the fields of a session row that name a book of a kind
RefersTo(r, kind, id) ==
  IF kind = "epub" THEN r.epubId = id ELSE r.audioId = id

\* DELETE /api/library/epubs/:id and /api/library/audiobooks/:id: 404 for
\* a missing record, 403 for a record of another user
DeleteBookRefused(kind, u, id) ==
  /\ \/ /\ GetBookRow(kind, id) = {}
        /\ response' = Respond("deleteBook", u, 404, id, <<>>)
     \/ /\ \E b \in GetBookRow(kind, id) : b.userId # u
        /\ response' = Respond("deleteBook", u, 403, id, <<>>)
  /\ UNCHANGED <<db, calls, nextId>>
  /\ LibraryRequest

DeleteBookChecked(kind, u, id) ==
  /\ \E b \in GetBookRow(kind, id) : b.userId = u
  /\ FreeCalls # {}
  /\ calls' = [calls EXCEPT ![FreeCall] =
        [NoCall EXCEPT !.op = "deleteBook", !.pc = "sessions", !.kind = kind,
                       !.user = u, !.id = id]]
  /\ UNCHANGED <<db, response, nextId>>
  /\ LibraryRequest

\* deleteSyncSessionsByEpub / deleteSyncSessionsByAudiobook
DeleteSessionsOf(kind, id) ==
  [db EXCEPT !.syncSessions = {r \in @ : ~RefersTo(r, kind, id)}]

DeleteBookSessions(c) ==
  /\ calls[c].op = "deleteBook" /\ calls[c].pc = "sessions"
  /\ db' = DeleteSessionsOf(calls[c].kind, calls[c].id)
  /\ calls' = [calls EXCEPT ![c].pc = "book"]
  /\ UNCHANGED <<response, nextId>>
  /\ LibraryStep

\* deleteEpubBook / deleteAudiobook, then { success: true }
DeleteBookRow(c) ==
  /\ calls[c].op = "deleteBook" /\ calls[c].pc = "book"
  /\ db' = [db EXCEPT ![TableOf(calls[c].kind)] =
                        {b \in @ : b.id # calls[c].id}]
  /\ response' = Respond("deleteBook", calls[c].user, 200, calls[c].id, <<>>)
  /\ calls' = [calls EXCEPT ![c] = NoCall]
  /\ UNCHANGED nextId
  /\ LibraryStep

\* GET /api/epub/:id and /api/audiobook/:id: the record, for any user
GetBook(kind, u, id) ==
  /\ IF GetBookRow(kind, id) = {}
     THEN response' = Respond("getBook", u, 404, id, <<>>)
     ELSE \E b \in GetBookRow(kind, id) :
             response' = Respond("getBook", u, 200, id, b)
  /\ UNCHANGED <<db, calls, nextId>>
  /\ LibraryRequest

\* "Verify ownership"
OwnerCheck(row, u) == row.userId = u

\* GET /api/library/epubs/:id and /api/library/audiobooks/:id
GetLibraryBook(kind, u, id) ==
  /\ IF GetBookRow(kind, id) = {}
     THEN response' = Respond("getLibraryBook", u, 404, id, <<>>)
     ELSE \E b \in GetBookRow(kind, id) :
             response' = IF OwnerCheck(b, u)
                         THEN Respond("getLibraryBook", u, 200, id, b)
                         ELSE Respond("getLibraryBook", u, 403, id, <<>>)
  /\ UNCHANGED <<db, calls, nextId>>
  /\ LibraryRequest

\* GET /api/sync/:id
GetSession(u, id) ==
  /\ IF GetSyncSession(id) = {}
     THEN response' = Respond("getSession", u, 404, id, <<>>)
     ELSE \E r \in GetSyncSession(id) :
             response' = IF OwnerCheck(r, u)
                         THEN Respond("getSession", u, 200, id, r)
                         ELSE Respond("getSession", u, 403, id, <<>>)
  /\ UNCHANGED <<db, calls, nextId>>
  /\ LibraryRequest

\* DELETE /api/sync/:id and /api/sync-sessions/:id: after the ownership
\* check the handler calls storage.deleteSyncSession, which the storage
\* does not define; the call throws and the handler answers 500
DeleteSession(u, id) ==
  /\ IF GetSyncSession(id) = {}
     THEN response' = Respond("deleteSession", u, 404, id, <<>>)
     ELSE \E r \in GetSyncSession(id) :
             response' = IF OwnerCheck(r, u)
                         THEN Respond("deleteSession", u, 500, id, <<>>)
                         ELSE Respond("deleteSession", u, 403, id, <<>>)
  /\ UNCHANGED <<db, calls, nextId>>
  /\ LibraryRequest

InitLibrary ==
  /\ IdleLibrary /\ IdleCleanup /\ IdleChunker /\ IdleCalc
  /\ IdleDebounce /\ IdleClock
  /\ IdleUpload /\ IdleMatch
  /\ session = NewSession
  /\ tasks = [i \in Slots |-> NoTask]
  /\ reply = NoReply
  /\ requests = 0
  /\ advanceRequested = FALSE
  /\ lastSyncedWord = 0

NextLibrary ==
  \/ \E kind \in BookKinds, u \in Users, h \in Hashes :
        UploadFound(kind, u, h) \/ UploadNew(kind, u, h)
  \/ \E c \in CallSlots :
        \/ CreateBookExisting(c)
        \/ CreateBookLookedUp(c)
        \/ CreateBookInsert(c)
        \/ CreateSessionInsert(c)
        \/ DeleteBookSessions(c)
        \/ DeleteBookRow(c)
  \/ \E u \in Users, epubId \in Ids, audioId \in Ids :
        \/ CreateSessionExisting(u, epubId, audioId)
        \/ CreateSessionLookedUp(u, epubId, audioId)
  \/ \E kind \in BookKinds, u \in Users, id \in Ids :
        \/ DeleteBookRefused(kind, u, id)
        \/ DeleteBookChecked(kind, u, id)
        \/ GetBook(kind, u, id)
        \/ GetLibraryBook(kind, u, id)
  \/ \E u \in Users, id \in Ids : GetSession(u, id) \/ DeleteSession(u, id)

SpecLibrary == InitLibrary /\ [][NextLibrary]_vars

----------------------------------------------------------------------------
(* The temporary artefacts of one sync operation: the staged download of   *)
(* the audio, the chunk files of the splitter (local or in object storage) *)
(* and the extracted audio segment of a progressive chunk.  The operation  *)
(* is processSync (full) or syncWordChunk (progressive).                   *)

Artefact(kind, k) == [kind |-> kind, k |-> k]
\* uploads/temp-audio-<sessionId>.<format>
Download == Artefact("download", 0)
\* uploads/chunks_<sessionId>/segment_<from>_<to>_<timestamp>.mp3
Segment == Artefact("segment", 0)

CleanupFrame ==
  UNCHANGED <<SessionVars, LibraryVars, ChunkerVars, CalcVars, DebounceVars,
              ClockVars,
              UploadVars, MatchVars>>

RunAt(mode, pc) == run.mode = mode /\ run.pc = pc

\* "Download audio file from Object Storage if needed"
StageAudio(next) ==
  /\ run.pc = "init"
  /\ IF run.stored
     THEN /\ artefacts' = artefacts \cup {Download}
          /\ run' = [run EXCEPT !.pc = next, !.needsCleanup = TRUE]
     ELSE /\ run' = [run EXCEPT !.pc = next]
          /\ UNCHANGED artefacts
  /\ CleanupFrame

\* the download rejects: the write stream may have created the file, and
\* needsCleanup is still false when the catch and finally blocks run
StageAudioFail ==
  /\ run.pc = "init" /\ run.stored
  /\ artefacts' \in {artefacts, artefacts \cup {Download}}
  /\ run' = [run EXCEPT !.pc = "done", !.outcome = "failed"]
  /\ CleanupFrame

\* "if (needsCleanup && fs.existsSync(audioFilePath)) fs.unlinkSync(...)"
RemoveDownload(r, files) == IF r.needsCleanup THEN files \ {Download} ELSE files

\* AudioChunk of the splitter
Chunk(k, isObjectStorage) == [k |-> k, isObjectStorage |-> isObjectStorage]
ChunkFile(c) ==
  Artefact(IF c.isObjectStorage THEN "blob" ELSE "local", c.k)

\* /tmp/audio_chunks_<uniqueId>, the directory the chunks are extracted to
LocalDir == Artefact("dir", 0)

\* cleanupChunks: nothing for a list of one chunk, else every chunk deleted
\* and, when a chunk of the list is local, the directory of that chunk
CleanupChunks(chunks, files) ==
  IF Len(chunks) <= 1 THEN files
  ELSE LET local == {j \in 1..Len(chunks) : ~chunks[j].isObjectStorage}
       IN (files \ {ChunkFile(chunks[j]) : j \in 1..Len(chunks)})
            \ (IF local # {} THEN {LocalDir} ELSE {})

\* the finally block of transcribeWithChunking
TranscribeFinally(chunks, files) ==
  IF Len(chunks) > 1 THEN CleanupChunks(chunks, files) ELSE files

\* splitAudioIntoChunks, file <= MAX_CHUNK_SIZE: the file itself is the chunk
SplitSmall ==
  /\ RunAt("full", "split") /\ ~run.large
  /\ run' = [run EXCEPT !.pc = "transcribe", !.chunks = <<Chunk(0, FALSE)>>]
  /\ UNCHANGED artefacts
  /\ CleanupFrame

\* one turn of the loop of extractChunksWithDuration: the chunk is extracted
\* to the local directory, then uploaded and its local file deleted, or kept
\* local when the upload fails
SplitExtract(uploaded) ==
  /\ RunAt("full", "split") /\ run.large
  /\ Len(run.chunks) < MaxChunks
  /\ LET c == Chunk(Len(run.chunks) + 1, uploaded)
     IN /\ artefacts' = artefacts \cup {ChunkFile(c), LocalDir}
        /\ run' = [run EXCEPT !.chunks = Append(@, c)]
  /\ CleanupFrame

\* the loop ends (currentTime >= totalDuration): "Clean up temp directory
\* if all chunks were uploaded"
SplitDone ==
  /\ RunAt("full", "split") /\ run.large
  /\ Len(run.chunks) >= 1
  /\ run' = [run EXCEPT !.pc = "transcribe"]
  /\ artefacts' =
       IF \A j \in 1..Len(run.chunks) : run.chunks[j].isObjectStorage
       THEN artefacts \ {LocalDir} ELSE artefacts
  /\ CleanupFrame

\* ffmpeg fails or a chunk is above MAX_CHUNK_SIZE: the splitter throws
\* before the try block of transcribeWithChunking is entered; processSync
\* removes its download and marks the session
SplitFail ==
  /\ RunAt("full", "split") /\ run.large
  /\ Len(run.chunks) < MaxChunks
  /\ artefacts' = RemoveDownload(run, artefacts)
  /\ run' = [run EXCEPT !.pc = "done", !.outcome = "failed"]
  /\ CleanupFrame

\* transcribeAudioSegment(chunk.path) for the next chunk
TranscribeChunk ==
  /\ RunAt("full", "transcribe")
  /\ run.chunk < Len(run.chunks)
  /\ run' = [run EXCEPT !.chunk = @ + 1]
  /\ UNCHANGED artefacts
  /\ CleanupFrame

\* the transcription of a chunk throws: finally of transcribeWithChunking,
\* then the catch of processSync
TranscribeFail ==
  /\ RunAt("full", "transcribe")
  /\ run.chunk < Len(run.chunks)
  /\ artefacts' = RemoveDownload(run, TranscribeFinally(run.chunks, artefacts))
  /\ run' = [run EXCEPT !.pc = "done", !.outcome = "failed"]
  /\ CleanupFrame

\* every chunk transcribed: finally of transcribeWithChunking, then "Clean
\* up temp file if we downloaded it"
TranscribeDone ==
  /\ RunAt("full", "transcribe")
  /\ run.chunk = Len(run.chunks)
  /\ artefacts' = RemoveDownload(run, TranscribeFinally(run.chunks, artefacts))
  /\ run' = [run EXCEPT !.pc = "match"]
  /\ CleanupFrame

\* matching and the complete write; when a write throws, the catch of
\* processSync removes the download once more
FullMatch(outcome) ==
  /\ RunAt("full", "match")
  /\ artefacts' = IF outcome = "ok" THEN artefacts
                  ELSE RemoveDownload(run, artefacts)
  /\ run' = [run EXCEPT !.pc = "done", !.outcome = outcome]
  /\ CleanupFrame

\* syncWordChunk: extractAudioByTimeRange / extractAudioByWordRange
SegmentExtract ==
  /\ RunAt("progressive", "extract")
  /\ artefacts' = artefacts \cup {Segment}
  /\ run' = [run EXCEPT !.pc = "work"]
  /\ CleanupFrame

\* ffmpeg fails: catch, then finally
SegmentExtractFail ==
  /\ RunAt("progressive", "extract")
  /\ artefacts' = RemoveDownload(run, artefacts)
  /\ run' = [run EXCEPT !.pc = "done", !.outcome = "failed"]
  /\ CleanupFrame

\* cleanupSegments([audioSegment.filePath])
CleanupSegments(files) == files \ {Segment}

\* the success path: commit, cleanupSegments, return true, finally
SegmentCommit ==
  /\ RunAt("progressive", "work")
  /\ artefacts' = RemoveDownload(run, CleanupSegments(artefacts))
  /\ run' = [run EXCEPT !.pc = "done", !.outcome = "ok"]
  /\ CleanupFrame

\* the transcription or the commit throws: catch (error write), finally
SegmentWorkFail ==
  /\ RunAt("progressive", "work")
  /\ artefacts' = RemoveDownload(run, artefacts)
  /\ run' = [run EXCEPT !.pc = "done", !.outcome = "failed"]
  /\ CleanupFrame

InitCleanup ==
  /\ artefacts = {}
  /\ \E mode \in {"full", "progressive"}, stored \in BOOLEAN,
        large \in BOOLEAN :
        /\ mode = "progressive" => ~large
        /\ run = [NoRun EXCEPT !.mode = mode, !.pc = "init",
                               !.stored = stored, !.large = large]
  /\ IdleLibrary /\ IdleChunker /\ IdleCalc
  /\ IdleDebounce /\ IdleClock
  /\ IdleUpload /\ IdleMatch
  /\ session = NewSession
  /\ tasks = [i \in Slots |-> NoTask]
  /\ reply = NoReply
  /\ requests = 0
  /\ advanceRequested = FALSE
  /\ lastSyncedWord = 0

NextCleanup ==
  \/ StageAudio(IF run.mode = "full" THEN "split" ELSE "extract")
  \/ StageAudioFail
  \/ SplitSmall
  \/ \E uploaded \in BOOLEAN : SplitExtract(uploaded)
  \/ SplitDone
  \/ SplitFail
  \/ TranscribeChunk
  \/ TranscribeFail
  \/ TranscribeDone
  \/ \E outcome \in {"ok", "failed"} : FullMatch(outcome)
  \/ SegmentExtract
  \/ SegmentExtractFail
  \/ SegmentCommit
  \/ SegmentWorkFail

SpecCleanup == InitCleanup /\ [][NextCleanup]_vars

----------------------------------------------------------------------------
(* The audio chunker: splitAudioIntoChunks and its two loops.  Times are   *)
(* in seconds, sizes in bytes.  A file has a constant byte rate; a chunk   *)
(* copied from it has that rate, a chunk re-encoded from an .m4b has the   *)
(* rate of 128 kbit/s MP3.  The fields path and isObjectStorage of a chunk *)
(* are those of the cleanup model above.                                   *)

MAX_CHUNK_SIZE == 24 * 1024 * 1024
MinChunkDuration == 60
MaxChunkDuration == 600
M4BFirstChunkDuration == 120
CHUNK_DURATION == 300
MIN_CHUNK_SIZE == 1024
MaxIterativeChunks == 500
\* "-b:a 128k" in bytes per second
ReencodedRate == 16000

\* "24MB to stay safely under 25MB Whisper limit": the limit of the provider
ProviderMaxBytes == 25 * 1024 * 1024

\* the audio files split: <<duration, bytes per second>>
AudioFiles == {<<3600, 1000>>, <<3600, 16000>>, <<3700, 16000>>,
               <<3700, 100000>>, <<3600, 450000>>, <<25201, 1000>>,
               <<150300, 1000>>, <<1536, 16384>>, <<1600, 16384>>,
               <<290, 100000>>}

ChunkerFrame ==
  UNCHANGED <<SessionVars, LibraryVars, CleanupVars, CalcVars, DebounceVars,
              ClockVars,
              UploadVars, MatchVars>>

\* fs.statSync(audioFilePath).size
FileSize(c) == c.rate * c.duration

\* bytes per second of the output of extractAudioSegment
OutputRate(c) == IF c.m4b THEN ReencodedRate ELSE c.rate

\* size of the file ffmpeg writes for "-ss startTime -t duration": the
\* output ends where the input ends
SegmentSize(c, startTime, duration) ==
  OutputRate(c) * Max(0, Min(duration, c.duration - startTime))

AudioChunk(startTime, duration, size) ==
  [startTime |-> startTime, duration |-> duration, size |-> size]

\* "if (fileSize <= MAX_CHUNK_SIZE)"
NeedsNoChunkingStrict(fileSize) == fileSize < MAX_CHUNK_SIZE
NeedsNoChunking(fileSize) == fileSize <= MAX_CHUNK_SIZE

\* "If file is under 24MB, no chunking needed"
SplitSingle ==
  /\ chunker.pc = "init"
  /\ NeedsNoChunking(FileSize(chunker))
  /\ chunker' = [chunker EXCEPT !.pc = "returned",
                    !.chunks = <<AudioChunk(0, 0, FileSize(chunker))>>]
  /\ ChunkerFrame

\* targetChunkDuration of splitAudioIntoChunks
TargetChunkDuration(c) ==
  LET effectiveBitrate == IF c.bitrateKnown THEN c.rate
                          ELSE FileSize(c) \div c.duration
      calculatedDuration == MAX_CHUNK_SIZE \div effectiveBitrate
  IN Max(MinChunkDuration, Min(MaxChunkDuration, calculatedDuration))

\* "If we have valid duration, use it for efficient chunking"
SplitKnownDuration ==
  /\ chunker.pc = "init"
  /\ ~NeedsNoChunking(FileSize(chunker))
  /\ chunker.durationKnown
  /\ chunker' = [chunker EXCEPT !.pc = "duration",
                    !.chunkDuration = TargetChunkDuration(chunker)]
  /\ ChunkerFrame

\* "Fallback: Iterative chunking without duration knowledge"
SplitUnknownDuration ==
  /\ chunker.pc = "init"
  /\ ~NeedsNoChunking(FileSize(chunker))
  /\ ~chunker.durationKnown
  /\ chunker' = [chunker EXCEPT !.pc = "iterative"]
  /\ ChunkerFrame

\* "Validate chunk size"
ChunkTooLargeNever(chunkSize) == FALSE
ChunkTooLarge(chunkSize) == chunkSize > MAX_CHUNK_SIZE

\* one turn of the loop of extractChunksWithDuration
ExtractWithDuration ==
  /\ chunker.pc = "duration"
  /\ chunker.currentTime < chunker.duration
  /\ LET remainingTime == chunker.duration - chunker.currentTime
         targetDuration ==
           IF chunker.m4b /\ Len(chunker.chunks) = 0
           THEN Min(M4BFirstChunkDuration, chunker.chunkDuration)
           ELSE chunker.chunkDuration
         actualDuration == Min(targetDuration, remainingTime)
         chunkSize == SegmentSize(chunker, chunker.currentTime, actualDuration)
     IN chunker' =
          IF ChunkTooLarge(chunkSize)
          THEN [chunker EXCEPT !.pc = "thrown"]
          ELSE [chunker EXCEPT
                  !.chunks = Append(@, AudioChunk(chunker.currentTime,
                                                  actualDuration, chunkSize)),
                  !.currentTime = @ + actualDuration]
  /\ ChunkerFrame

\* the loop ends and the list is returned
WithDurationDone ==
  /\ chunker.pc = "duration"
  /\ chunker.currentTime >= chunker.duration
  /\ chunker' = [chunker EXCEPT !.pc = "returned"]
  /\ ChunkerFrame

\* one turn of the loop of extractChunksIteratively
ExtractIteratively ==
  /\ chunker.pc = "iterative"
  /\ LET chunkSize ==
           SegmentSize(chunker, chunker.currentTime, CHUNK_DURATION)
         chunks == Append(chunker.chunks,
                          AudioChunk(chunker.currentTime, CHUNK_DURATION,
                                     chunkSize))
     IN chunker' =
          IF chunkSize < MIN_CHUNK_SIZE
          THEN [chunker EXCEPT !.pc = "returned"]
          ELSE IF ChunkTooLarge(chunkSize)
          THEN [chunker EXCEPT !.pc = "thrown"]
          ELSE [chunker EXCEPT
                  !.chunks = chunks,
                  !.currentTime = @ + CHUNK_DURATION,
                  !.pc = IF Len(chunks) >= MaxIterativeChunks
                         THEN "returned" ELSE "iterative"]
  /\ ChunkerFrame

InitChunker ==
  /\ \E f \in AudioFiles, m4b \in BOOLEAN, durationKnown \in BOOLEAN,
        bitrateKnown \in BOOLEAN :
        chunker = [NoChunking EXCEPT !.pc = "init", !.duration = f[1],
                     !.rate = f[2], !.m4b = m4b,
                     !.durationKnown = durationKnown,
                     !.bitrateKnown = bitrateKnown]
  /\ IdleLibrary /\ IdleCleanup /\ IdleCalc
  /\ IdleDebounce /\ IdleClock
  /\ IdleUpload /\ IdleMatch
  /\ session = NewSession
  /\ tasks = [i \in Slots |-> NoTask]
  /\ reply = NoReply
  /\ requests = 0
  /\ advanceRequested = FALSE
  /\ lastSyncedWord = 0

NextChunker ==
  \/ SplitSingle
  \/ SplitKnownDuration
  \/ SplitUnknownDuration
  \/ ExtractWithDuration
  \/ WithDurationDone
  \/ ExtractIteratively

SpecChunker == InitChunker /\ [][NextChunker]_vars

----------------------------------------------------------------------------
(* The sync-point functions, checked on their own: the anchors a full sync *)
(* commits (AllMatches and calculateSyncPoints in processSync),            *)
(* calculateSyncPoints itself and interpolatePosition / interpolateSync,   *)
(* for audio durations, text lengths and anchor lists drawn at the start.  *)

\* audio.duration values in seconds; 0 is what the upload stores when the
\* metadata has no duration
CalcDurations == {0, 20, 100}
\* epub.textContent.length values
CalcTextLengths == {300, 2000}
\* audio times (seconds), text indexes and confidences of the anchors
CalcTimes == {0, 40, 80}
CalcIndexes == {0, 600, 1500}
CalcConfidences == {6, 9}
\* longest anchor list passed in
MaxCalcAnchors == 2
\* audio times (time units) looked up
LookupTimes == {0, 101, 40 * TimeUnitsPerSec, 90 * TimeUnitsPerSec}

CalcAnchors ==
  {Anchor(t * TimeUnitsPerSec, x, c) :
     t \in CalcTimes, x \in CalcIndexes, c \in CalcConfidences}

\* anchor lists of at most MaxCalcAnchors anchors
CalcAnchorLists ==
  UNION {[1..n -> CalcAnchors] : n \in 0..MaxCalcAnchors}

CalcFrame ==
  UNCHANGED <<SessionVars, LibraryVars, CleanupVars, ChunkerVars,
              DebounceVars, ClockVars,
              UploadVars, MatchVars>>

\* the anchors processSync writes with status complete
ProcessSyncPoints ==
  /\ calc.pc = "init"
  /\ calc' = [calc EXCEPT !.pc = "full",
                 !.points = FullAnchorsOf(calc.anchors, calc.duration,
                                          calc.textLength)]
  /\ CalcFrame

\* calculateSyncPoints called with the anchors as they are
CalculatePoints ==
  /\ calc.pc = "init"
  /\ calc' = [calc EXCEPT !.pc = "points",
                 !.points = CalculateSyncPoints(calc.anchors, calc.duration,
                                                calc.textLength)]
  /\ CalcFrame

\* GET /api/sync/:id/position: "session.syncAnchors.map(...)", the stored
\* anchors as they are
StoredPoints ==
  /\ calc.pc = "init"
  /\ calc' = [calc EXCEPT !.pc = "stored",
                 !.points = [i \in 1..Len(calc.anchors) |->
                               SyncPoint(calc.anchors[i].audioTime,
                                         calc.anchors[i].textIndex)]]
  /\ CalcFrame

\* Math.round(n / d) for d > 0: the nearest integer, halves upwards
RoundDown(n, d) == n \div d
Round(n, d) == (2 * n + d) \div (2 * d)

\* the pairs (i, i + 1) with syncPoints[i].audioTime <= audioTime <=
\* syncPoints[i + 1].audioTime
Brackets(syncPoints, audioTime) ==
  {i \in 1..(Len(syncPoints) - 1) :
     /\ audioTime >= syncPoints[i].audioTime
     /\ audioTime <= syncPoints[i + 1].audioTime}

\* interpolatePosition and interpolateSync
InterpolatePosition(syncPoints, audioTime) ==
  IF Len(syncPoints) = 0 THEN 0
  ELSE IF Len(syncPoints) = 1 THEN syncPoints[1].textIndex
  ELSE LET hits == Brackets(syncPoints, audioTime)
           i == IF hits = {} THEN 0
                ELSE CHOOSE j \in hits : \A k \in hits : j <= k
           before == IF i = 0 THEN syncPoints[1] ELSE syncPoints[i]
           after == IF i = 0 THEN syncPoints[Len(syncPoints)]
                    ELSE syncPoints[i + 1]
           timeDiff == after.audioTime - before.audioTime
           textDiff == after.textIndex - before.textIndex
       IN IF timeDiff = 0 THEN before.textIndex
          ELSE IF timeDiff > 0
          THEN Round(before.textIndex * timeDiff
                        + (audioTime - before.audioTime) * textDiff,
                     timeDiff)
          ELSE Round(-(before.textIndex * timeDiff
                         + (audioTime - before.audioTime) * textDiff),
                     -timeDiff)

Interpolate(audioTime) ==
  /\ calc.pc \in {"full", "points", "stored"}
  /\ calc' = [calc EXCEPT !.pc = "interpolated", !.audioTime = audioTime,
                 !.textIndex = InterpolatePosition(calc.points, audioTime)]
  /\ CalcFrame

\* the anchors lie within the audio and the text
InRange(anchors, duration, textLength) ==
  \A i \in 1..Len(anchors) :
     /\ anchors[i].audioTime <= duration
     /\ anchors[i].textIndex <= textLength

InitCalc ==
  /\ \E d \in CalcDurations, n \in CalcTextLengths, a \in CalcAnchorLists :
        /\ InRange(a, d * TimeUnitsPerSec, n)
        /\ calc = [NoCalc EXCEPT !.pc = "init",
                                 !.duration = d * TimeUnitsPerSec,
                                 !.textLength = n, !.anchors = a]
  /\ IdleLibrary /\ IdleCleanup /\ IdleChunker /\ IdleDebounce /\ IdleClock
  /\ IdleUpload /\ IdleMatch
  /\ session = NewSession
  /\ tasks = [i \in Slots |-> NoTask]
  /\ reply = NoReply
  /\ requests = 0
  /\ advanceRequested = FALSE
  /\ lastSyncedWord = 0

NextCalc ==
  \/ ProcessSyncPoints
  \/ CalculatePoints
  \/ StoredPoints
  \/ \E t \in LookupTimes : Interpolate(t)

SpecCalc == InitCalc /\ [][NextCalc]_vars

----------------------------------------------------------------------------
(* useDebouncedProgress and the reader's two progress effects, checked on  *)
(* their own. Time passes in seconds; while the audio plays, the player    *)
(* reports a new currentTime at least once in every second.                *)

\* "delay = 5000", in seconds
DebounceDelay == 5
\* seconds the reader stays open
MaxOpenTime == 8

\* schedule(positionSeconds): keeps the value and restarts the timer
Schedule(d, positionSeconds) ==
  [d EXCEPT !.lastValue = positionSeconds,
            !.timeout = DebounceDelay,
            !.waited = IF d.lastValue = NoValue THEN 0 ELSE @]

\* flush(), up to the await of onFlush
Flush(d) ==
  IF d.lastValue = NoValue \/ d.isFlushing
  THEN d
  ELSE [d EXCEPT !.valueToFlush = d.lastValue, !.lastValue = NoValue,
                 !.isFlushing = TRUE, !.waited = 0]

DebounceFrame ==
  UNCHANGED <<SessionVars, LibraryVars, CleanupVars, ChunkerVars, CalcVars,
              ClockVars,
              UploadVars, MatchVars>>

\* the user starts the audio: the effect of the playing reader schedules
PlayAudio ==
  /\ ~debounce.isPlaying
  /\ debounce.now < MaxOpenTime
  /\ debounce' = Schedule([debounce EXCEPT !.isPlaying = TRUE],
                          debounce.currentTime)
  /\ DebounceFrame

\* one second of playback: currentTime changes and the effect schedules it
PlaybackSecond ==
  /\ debounce.isPlaying
  /\ debounce.timeout # 0
  /\ debounce.now < MaxOpenTime
  /\ debounce' =
       Schedule([debounce EXCEPT !.currentTime = @ + 1, !.now = @ + 1,
                                 !.waited = IF debounce.lastValue = NoValue
                                            THEN @ ELSE @ + 1],
                debounce.currentTime + 1)
  /\ DebounceFrame

\* the user pauses: the effect of the paused reader schedules and flushes
PauseAudio ==
  /\ debounce.isPlaying
  /\ debounce' = Flush(Schedule([debounce EXCEPT !.isPlaying = FALSE],
                                debounce.currentTime))
  /\ DebounceFrame

\* one second passes while the audio is paused and the timer runs
PausedSecond ==
  /\ ~debounce.isPlaying
  /\ debounce.timeout > 0
  /\ debounce.now < MaxOpenTime
  /\ debounce' = [debounce EXCEPT !.timeout = @ - 1, !.now = @ + 1,
                                  !.waited = IF debounce.lastValue = NoValue
                                             THEN @ ELSE @ + 1]
  /\ DebounceFrame

\* the callback of setTimeout
TimerFires ==
  /\ debounce.timeout = 0
  /\ debounce' = Flush([debounce EXCEPT !.timeout = NoTimeout])
  /\ DebounceFrame

\* onFlush settles: "finally { isFlushingRef.current = false; }"
FlushSettles(posted) ==
  /\ debounce.isFlushing
  /\ debounce' = [debounce EXCEPT !.isFlushing = FALSE,
                                  !.valueToFlush = NoValue,
                                  !.persisted = IF posted
                                                THEN debounce.valueToFlush
                                                ELSE @]
  /\ DebounceFrame

InitDebounce ==
  /\ debounce = NoDebounce
  /\ IdleLibrary /\ IdleCleanup /\ IdleChunker /\ IdleCalc /\ IdleClock
  /\ IdleUpload /\ IdleMatch
  /\ session = NewSession
  /\ tasks = [i \in Slots |-> NoTask]
  /\ reply = NoReply
  /\ requests = 0
  /\ advanceRequested = FALSE
  /\ lastSyncedWord = 0

NextDebounce ==
  \/ PlayAudio
  \/ PlaybackSecond
  \/ PauseAudio
  \/ PausedSecond
  \/ TimerFires
  \/ \E posted \in BOOLEAN : FlushSettles(posted)

SpecDebounce == InitDebounce /\ [][NextDebounce]_vars

----------------------------------------------------------------------------
(* POST /api/sync/:id/pause, checked on its own against the clock of the   *)
(* database: the handler is called on sessions of every status and mode.   *)

\* latest time of the clock
MaxClock == 3

\* time passes
ClockTick ==
  /\ now < MaxClock
  /\ now' = now + 1
  /\ UNCHANGED <<SessionVars, LibraryVars, CleanupVars, ChunkerVars,
                 CalcVars, DebounceVars, UploadVars, MatchVars>>

\* the sessions the handler finds
PauseSessions ==
  {[NewSession EXCEPT !.status = st, !.syncMode = mode,
                      !.syncedUpToWord = w] :
     st \in {"pending", "processing", "paused", "complete", "error"},
     mode \in {"progressive", "full"},
     w \in {0, FIRST_CHUNK_SIZE}}

InitPause ==
  /\ session \in PauseSessions
  /\ tasks = [i \in Slots |-> NoTask]
  /\ reply = NoReply
  /\ requests = 0
  /\ advanceRequested = FALSE
  /\ lastSyncedWord = 0
  /\ IdleLibrary /\ IdleCleanup /\ IdleChunker /\ IdleCalc /\ IdleDebounce
  /\ IdleUpload /\ IdleMatch
  /\ now = 0

NextPause ==
  \/ ClockTick
  \/ Pause
  \/ ModeReject("pause")

SpecPause == InitPause /\ [][NextPause]_vars

----------------------------------------------------------------------------
(* validateUploadFile, applied to one file. Strings the function takes     *)
(* apart (file names, extensions) are sequences of characters.             *)

MAX_MB == 1024 * 1024

\* RULES
UploadRules ==
  [epub |->
     [extensions |-> {<<".", "e", "p", "u", "b">>},
      mimeTypes |-> {"application/epub+zip", "application/zip",
                     "application/octet-stream"},
      maxSizeMb |-> 100],
   audio |->
     [extensions |-> {<<".", "m", "p", "3">>, <<".", "m", "4", "a">>,
                      <<".", "m", "4", "b">>, <<".", "w", "a", "v">>},
      mimeTypes |-> {"audio/mpeg", "audio/mp3", "audio/mp4", "audio/x-m4a",
                     "audio/aac", "audio/wav", "audio/x-wav", "audio/ogg"},
      maxSizeMb |-> 500]]

UploadKinds == {"epub", "audio"}

\* String.prototype.toLowerCase on the characters the names use
LowerChar(c) ==
  CASE c = "E" -> "e" [] c = "P" -> "p" [] c = "U" -> "u" [] c = "B" -> "b"
    [] c = "M" -> "m" [] c = "T" -> "t" [] OTHER -> c

ToLowerCase(str) == [j \in 1..Len(str) |-> LowerChar(str[j])]

\* String.prototype.lastIndexOf for one character; 0 stands for -1 and the
\* positions count from 1
LastIndexOf(str, c) ==
  LET hits == {j \in 1..Len(str) : str[j] = c}
  IN IF hits = {} THEN 0 ELSE CHOOSE j \in hits : \A k \in hits : k <= j

\* file.name.substring(lastDot)
SubstringFrom(str, from) == SubSeq(str, from, Len(str))

\* the file names uploaded: title.epub, title, t.EPUB, t.mp3, t.epub.mp3,
\* .epub, t., t.wav, t.pdf, epub, t.M4b, t.mp3.epub
UploadNames ==
  {<<"t", ".", "e", "p", "u", "b">>, <<"t">>,
   <<"t", ".", "E", "P", "U", "B">>, <<"t", ".", "m", "p", "3">>,
   <<"t", ".", "e", "p", "u", "b", ".", "m", "p", "3">>,
   <<".", "e", "p", "u", "b">>, <<"t", ".">>, <<"t", ".", "w", "a", "v">>,
   <<"t", ".", "p", "d", "f">>, <<"e", "p", "u", "b">>,
   <<"t", ".", "M", "4", "b">>,
   <<"t", ".", "m", "p", "3", ".", "e", "p", "u", "b">>}

\* file.size, in bytes: around the two limits
UploadSizes ==
  {0, 1024, 100 * MAX_MB, 100 * MAX_MB + 1, 500 * MAX_MB, 500 * MAX_MB + 1}

\* file.type; the empty string when the browser gives none
UploadTypes ==
  {"", "application/epub+zip", "audio/mpeg", "application/json", "audio/ogg"}

UploadResult(valid, error) == [valid |-> valid, error |-> error]

\* "file.size > rule.maxSizeMb * MAX_MB"
TooLargeFrom(size, maxSizeMb) == size >= maxSizeMb * MAX_MB
TooLarge(size, maxSizeMb) == size > maxSizeMb * MAX_MB

\* validateUploadFile(file, type)
ValidateUploadFile(file, kind) ==
  LET rule == UploadRules[kind]
      lastDot == LastIndexOf(file.name, ".")
      extension == ToLowerCase(SubstringFrom(file.name, lastDot))
  IN IF lastDot = 0
     THEN UploadResult(FALSE, "File is missing an extension.")
     ELSE IF extension \notin rule.extensions
     THEN UploadResult(FALSE, "Unsupported file type.")
     ELSE IF TooLarge(file.size, rule.maxSizeMb)
     THEN UploadResult(FALSE, "File is too large.")
     ELSE IF file.type # "" /\ file.type \notin rule.mimeTypes
     THEN UploadResult(FALSE, "Unexpected MIME type")
     ELSE UploadResult(TRUE, "none")

UploadFrame ==
  UNCHANGED <<SessionVars, LibraryVars, CleanupVars, ChunkerVars, CalcVars,
              DebounceVars, ClockVars, MatchVars>>

\* the upload zone validates the file the user dropped
Validate ==
  /\ validation.pc = "init"
  /\ LET result == ValidateUploadFile(validation, validation.kind)
     IN validation' = [validation EXCEPT !.pc = "validated",
                                         !.valid = result.valid,
                                         !.error = result.error]
  /\ UploadFrame

InitUpload ==
  /\ \E kind \in UploadKinds, name \in UploadNames, size \in UploadSizes,
        type \in UploadTypes :
        validation = [NoValidation EXCEPT !.pc = "init", !.kind = kind,
                                          !.name = name, !.size = size,
                                          !.type = type]
  /\ IdleLibrary /\ IdleCleanup /\ IdleChunker /\ IdleCalc /\ IdleDebounce
  /\ IdleClock /\ IdleMatch
  /\ session = NewSession
  /\ tasks = [i \in Slots |-> NoTask]
  /\ reply = NoReply
  /\ requests = 0
  /\ advanceRequested = FALSE
  /\ lastSyncedWord = 0

NextUpload == Validate

SpecUpload == InitUpload /\ [][NextUpload]_vars

----------------------------------------------------------------------------
(* A progressive session with one failure and a retry: the reader keeps    *)
(* playing close to the synced frontier, the user retries the failed       *)
(* session, and nothing fails after the retry. Every background run that   *)
(* can take a step takes it, the reader's effect runs whenever it has      *)
(* something to do, and the retry is sent.                                 *)

\* the steps of the runs that do not fail
RunStep(i) ==
  \/ StartSetProcessing(i)
  \/ StartProbeNone(i)
  \/ \E t \in ProbeTimes, x \in ProbeIndexes, c \in Confidences :
        StartProbeFound(i, t, x, c)
  \/ ChunkRead(i)
  \/ \E m \in PossibleMatches(tasks[i]) : ChunkCommit(i, m)
  \/ RetryWrite(i)

\* the one failure, before the retry
FirstFailure(i) ==
  /\ requests = 0
  /\ StartFail(i) \/ ChunkFail(i)

\* the reader is within the threshold of the frontier and its request is
\* accepted
ReaderPlays == ReaderEffect(TRUE, TRUE)

InitRetry == Init /\ IsProgressive(session)

NextRetry ==
  \/ \E i \in Slots : RunStep(i)
  \/ \E i \in Slots : FirstFailure(i)
  \/ RetryRead
  \/ ReaderPlays

SpecRetry ==
  /\ InitRetry /\ [][NextRetry]_vars
  /\ \A i \in Slots : WF_vars(RunStep(i))
  /\ WF_vars(RetryRead)
  /\ WF_vars(ReaderPlays)

----------------------------------------------------------------------------
(* A full sync on its own: processSync and the retry of a failed session.  *)
(* Every call the run awaits (database, blob store, ffmpeg, transcription) *)
(* returns or throws, so a run that can take a step takes one.             *)

FullStep(i) ==
  \/ FullStart(i)
  \/ FullMissing(i)
  \/ FullSegmenting(i)
  \/ FullTranscribing(i)
  \/ \E n \in 1..MaxChunks : FullInit(i, n)
  \/ \E segments \in SegmentCounts : FullProgress(i, segments)
  \/ FullMatching(i)
  \/ \E m \in FullMatches : FullComplete(i, m)
  \/ FullFail(i)
  \/ RetryWrite(i)

InitFull == Init /\ ~IsProgressive(session)

\* the user retries a failed session once
FirstRetry == requests = 0 /\ RetryRead

NextFull ==
  \/ \E i \in Slots : FullStep(i)
  \/ FirstRetry

SpecFull ==
  /\ InitFull /\ [][NextFull]_vars
  /\ \A i \in Slots : WF_vars(FullStep(i))

----------------------------------------------------------------------------
(* findTextMatches: the sliding windows over the text of the book.  A text *)
(* is a sequence of one-character strings.                                 *)

CHUNK_SIZE == 50
OVERLAP == 25

\* the longest text, in words, and the longest run of blanks between words
MaxTextWords == 51
MaxGap == 2

Vocabulary == {<<"a">>, <<"b">>, <<"a", "b">>}

Blanks(n) == [k \in 1..n |-> " "]

\* words.join(separator), joined half by half
RECURSIVE Join(_, _)
Join(words, separator) ==
  IF words = <<>> THEN <<>>
  ELSE IF Len(words) = 1 THEN words[1]
  ELSE LET half == Len(words) \div 2
       IN Join(SubSeq(words, 1, half), separator) \o separator
            \o Join(SubSeq(words, half + 1, Len(words)), separator)

\* the positions, from 1, at which a run of non-blank characters starts
PieceStarts(text) ==
  {k \in 1..Len(text) : text[k] # " " /\ (k = 1 \/ text[k - 1] = " ")}

\* the run of non-blank characters that starts at position k
PieceAt(text, k) ==
  SubSeq(text, k,
         CHOOSE e \in k..Len(text) :
            /\ \A j \in k..e : text[j] # " "
            /\ e = Len(text) \/ text[e + 1] = " ")

\* epubText.split(/\s+/): the pieces between the runs of blanks, an empty
\* piece before a leading and after a trailing run
Split(text) ==
  LET starts == PieceStarts(text)
      pieces == [n \in 1..Cardinality(starts) |->
                   PieceAt(text, CHOOSE k \in starts :
                                    Cardinality({j \in starts : j < k}) = n - 1)]
  IN IF text = <<>> THEN << <<>> >>
     ELSE (IF text[1] = " " THEN << <<>> >> ELSE <<>>)
          \o pieces
          \o (IF text[Len(text)] = " " THEN << <<>> >> ELSE <<>>)

\* words.slice(from, to), with indexes from 0
Slice(words, from, to) == SubSeq(words, from + 1, Min(to, Len(words)))

\* epubText.indexOf(word, from), with offsets from 0
IndexOf(text, word, from) ==
  LET hits == {k \in from..(Len(text) - Len(word)) :
                 SubSeq(text, k + 1, k + Len(word)) = word}
  IN IF hits = {} THEN -1 ELSE CHOOSE k \in hits : \A j \in hits : k <= j

\* the texts of the books: n words, chosen words where the first three
\* windows start and one filler word elsewhere, gap blanks between words
TextOf(first, second, third, filler, n, gap) ==
  Join([k \in 1..n |->
          IF k = 1 THEN first
          ELSE IF k = (CHUNK_SIZE - OVERLAP) + 1 THEN second
          ELSE IF k = 2 * (CHUNK_SIZE - OVERLAP) + 1 THEN third
          ELSE filler],
       Blanks(gap))

TextLengths == {10, CHUNK_SIZE - OVERLAP + 1} \cup (CHUNK_SIZE..MaxTextWords)

MatchFrame ==
  UNCHANGED <<SessionVars, LibraryVars, CleanupVars, ChunkerVars, CalcVars,
              DebounceVars, ClockVars, UploadVars>>

\* one turn of the loop that builds the windows
Window ==
  /\ windows.pc = "loop"
  /\ windows.i < Len(windows.words)
  /\ LET i == windows.i
         chunkWords == Slice(windows.words, i, i + CHUNK_SIZE)
         chunkText == Join(chunkWords, Blanks(1))
         searchStart == IF i = 0 \/ windows.chunks = <<>> THEN 0
                        ELSE windows.chunks[Len(windows.chunks)].index
         firstWord == chunkWords[1]
         foundIndex == IndexOf(windows.text, firstWord, searchStart)
     IN windows' =
          [windows EXCEPT
             !.i = i + (CHUNK_SIZE - OVERLAP),
             !.chunks = IF foundIndex # -1
                        THEN Append(@, [text |-> chunkText,
                                        index |-> foundIndex])
                        ELSE @]
  /\ MatchFrame

\* the loop is over: the windows go to the fuzzy matcher
WindowsDone ==
  /\ windows.pc = "loop"
  /\ windows.i >= Len(windows.words)
  /\ windows' = [windows EXCEPT !.pc = "done"]
  /\ MatchFrame

InitMatch ==
  /\ \E first \in Vocabulary, second \in Vocabulary, third \in Vocabulary,
        filler \in Vocabulary, n \in TextLengths, gap \in 1..MaxGap :
        LET text == TextOf(first, second, third, filler, n, gap)
        IN windows = [NoWindows EXCEPT !.pc = "loop", !.text = text,
                                       !.words = Split(text)]
  /\ IdleLibrary /\ IdleCleanup /\ IdleChunker /\ IdleCalc /\ IdleDebounce
  /\ IdleClock /\ IdleUpload
  /\ session = NewSession
  /\ tasks = [i \in Slots |-> NoTask]
  /\ reply = NoReply
  /\ requests = 0
  /\ advanceRequested = FALSE
  /\ lastSyncedWord = 0

NextMatch == Window \/ WindowsDone

SpecMatch == InitMatch /\ [][NextMatch]_vars

----------------------------------------------------------------------------
(* Properties *)

Statuses == {"pending", "processing", "paused", "complete", "error"}

\* the transitions of the state machine of the sync orchestrator
AllowedTransitions ==
  {<<"pending", "processing">>, <<"processing", "complete">>,
   <<"processing", "error">>, <<"processing", "paused">>,
   <<"paused", "processing">>, <<"error", "pending">>}

\* C1: every change of the session's status is a transition of the state
\* machine (pending->processing, processing->complete|error|paused,
\* paused->processing, error->pending)
C1_StatusTransitions ==
  [][session'.status # session.status =>
       <<session.status, session'.status>> \in AllowedTransitions]_vars

\* C2: the stored syncedUpToWord never decreases
C2_SyncedMonotone ==
  [][session'.syncedUpToWord >= session.syncedUpToWord]_vars

\* C3: the stored progressVersion never decreases under interleaved
\* playback-progress reports
C3_VersionMonotone ==
  [][session'.progressVersion >= session.progressVersion]_vars

IsSortedByTime(anchors) ==
  \A i \in 1..(Len(anchors) - 1) :
     anchors[i].audioTime <= anchors[i + 1].audioTime

\* C4: after every commit the anchor list is ordered by non-decreasing
\* audioTime
C4_AnchorsSorted == IsSortedByTime(session.syncAnchors)

WithinWindow(a, b) ==
  /\ Abs(a.audioTime - b.audioTime) < MergeWindowSec * TimeUnitsPerSec
  /\ Abs(a.textIndex - b.textIndex) < MergeWindowChars

\* C5: after every commit no two anchors of the list are both less than
\* 1 s and less than 10 characters apart
C5_NoNearPair ==
  \A i, j \in 1..Len(session.syncAnchors) :
     i < j => ~WithinWindow(session.syncAnchors[i], session.syncAnchors[j])

\* the syncWordChunk runs that have read the session and not yet committed
InFlight == {i \in Slots : tasks[i].kind = "chunk" /\ tasks[i].pc = "work"}

\* C6: at most one syncWordChunk run of the session is in flight
C6_OneInFlight == Cardinality(InFlight) <= 1

\* C7: a syncWordChunk run that reads a paused session returns false and
\* leaves every field of the session unchanged
C7_PausedRunRefused ==
  [][\A i \in Slots :
       (/\ tasks[i].kind = "chunk" /\ tasks[i].pc = "read"
        /\ session.status = "paused"
        /\ tasks'[i] # tasks[i])
       => (/\ session' = session
           /\ tasks'[i] = NoTask
           /\ reply' = Reply("chunk", "false"))]_vars

\* a run was refused on a paused session
C7_Witness ==
  /\ reply = Reply("chunk", "false")
  /\ session.status = "paused"

\* C8: resume is accepted only on a paused session and otherwise changes
\* nothing; when accepted it sets the status to processing and schedules
\* exactly one chunk, which starts at the syncedUpToWord the handler read
C8_Resume ==
  [][/\ \A i \in Slots :
          (tasks[i].kind = "none" /\ tasks'[i].kind = "resume")
          => (session.status = "paused" /\ session' = session)
     /\ (requests' # requests /\ reply' = Reply("resume", "rejected"))
          => (session' = session /\ tasks' = tasks)
     /\ \A i \in Slots :
          (tasks[i].kind = "resume" /\ tasks'[i] # tasks[i])
          => (/\ session'.status = "processing"
              /\ tasks'[i] = ChunkTask(tasks[i].snapSynced,
                                       DefaultWordChunkSize, -1)
              /\ \A j \in Slots \ {i} : tasks'[j] = tasks[j])]_vars

C10_CompleteIsSynced ==
  session.status = "complete" => session.syncedUpToWord >= TotalWords

\* C11: a session whose status is complete has progress 100 and currentStep
\* complete
C11_CompleteIsFull ==
  session.status = "complete" =>
     (session.progress = 100 /\ session.currentStep = "complete")

\* a background run ends in its catch block (or, for processSync, on a
\* missing book) in this step
FailsNow(i) ==
  /\ tasks'[i] = NoTask
  /\ \/ tasks[i].kind = "chunk" /\ tasks[i].pc = "work"
        /\ reply' = Reply("chunk", "false")
     \/ tasks[i].kind = "start" /\ reply' = Reply("start", "false")
     \/ tasks[i].kind = "full" /\ reply' \in {Reply("full", "failed"),
                                               Reply("full", "missing")}

C13_OneBookPerHash ==
  \A kind \in BookKinds : \A a, b \in db[TableOf(kind)] :
     (a.userId = b.userId /\ a.contentHash = b.contentHash) => a = b

\* C14: at most one sync session exists per (bookId, audioId, owner)
C14_OneSessionPerTriple ==
  \A a, b \in db.syncSessions :
     (a.epubId = b.epubId /\ a.audioId = b.audioId /\ a.userId = b.userId)
        => a = b

\* C15: when the deletion of a book or audiobook has finished, no sync
\* session refers to it
C15_CascadeDelete ==
  (response.op = "deleteBook" /\ response.status = 200)
     => \A r \in db.syncSessions :
           r.epubId # response.id /\ r.audioId # response.id

\* C16: a user gets the data of no record of another owner, and no sync
\* session is created over a book or audiobook of another owner
C16_OwnerOnly ==
  /\ response.data # <<>> => response.data.userId = response.user
  /\ \A r \in db.syncSessions :
        /\ \A b \in db.epubBooks : b.id = r.epubId => b.userId = r.userId
        /\ \A b \in db.audiobooks : b.id = r.audioId => b.userId = r.userId

\* C17: the stored playbackPositionSec is at least 0 and at most the duration
\* of the audiobook of the session
C17_PositionInAudio ==
  /\ session.playbackPositionSec >= 0
  /\ session.playbackPositionSec <= PlayedAudioDuration

\* C18: when a sync operation has ended, on success or on failure, none of
\* its temporary artefacts is left
C18_NoArtefactLeft == run.outcome # "none" => artefacts = {}

\* C19: when the owner's deletion of a sync session has been handled, the
\* session row does not exist
C19_SessionDeleted ==
  (response.op = "deleteSession" /\ response.status \notin {403, 404})
     => GetSyncSession(response.id) = {}

\* a chunk list returned for a file above the size cap
SplitReturned ==
  chunker.pc = "returned" /\ FileSize(chunker) > MAX_CHUNK_SIZE

\* each chunk is at most MAX_CHUNK_SIZE, the first starts at 0, each other
\* one starts where the previous one ends, later than it
ChunksInOrder(chunks) ==
  /\ \A j \in 1..Len(chunks) : chunks[j].size <= MAX_CHUNK_SIZE
  /\ Len(chunks) > 0 => chunks[1].startTime = 0
  /\ \A j \in 1..(Len(chunks) - 1) :
        /\ chunks[j + 1].startTime > chunks[j].startTime
        /\ chunks[j + 1].startTime = chunks[j].startTime + chunks[j].duration

\* where the last chunk ends
ChunksEnd(chunks) ==
  IF chunks = <<>> THEN 0
  ELSE chunks[Len(chunks)].startTime + chunks[Len(chunks)].duration

\* C20 as stated: every chunk list returned for a file above the size cap
\* has chunks of at most the limit, strictly increasing start times, chunks
\* consecutive from 0, and covers [0, totalDuration)
C20_ChunksCoverAudio ==
  SplitReturned => (/\ ChunksInOrder(chunker.chunks)
                    /\ ChunksEnd(chunker.chunks) >= chunker.duration)

\* C20: every chunk list returned for a file above the size cap has chunks of
\* at most the limit, strictly increasing start times and chunks consecutive
\* from 0; when the duration of the file was known the list covers
\* [0, totalDuration) and ends there
C20_ChunksInOrder ==
  SplitReturned => (/\ ChunksInOrder(chunker.chunks)
                    /\ chunker.durationKnown =>
                          ChunksEnd(chunker.chunks) = chunker.duration)

\* a list of several chunks was returned for a file of known duration whose
\* last chunk is shorter than the others
C20_Witness ==
  /\ SplitReturned /\ chunker.durationKnown
  /\ Len(chunker.chunks) > 2
  /\ chunker.chunks[Len(chunker.chunks)].duration < chunker.chunkDuration

\* the list of one chunk that describes the original file
OriginalFile(c) == <<AudioChunk(0, 0, FileSize(c))>>

C22_EmptySegmentsFail ==
  [][\A i \in Slots :
       (tasks[i].kind = "full" /\ tasks[i].emptySegments
          /\ tasks'[i] = NoTask)
        => session'.status = "error"]_vars

\* C23: the anchors a full sync commits with status complete are at least
\* 2, the first within 60 s of the start and the last within 60 s of the
\* audio duration
C23_FullAnchorsSpan ==
  calc.pc = "full" =>
     /\ Len(calc.points) >= 2
     /\ calc.points[1].audioTime <= 60 * TimeUnitsPerSec
     /\ Abs(calc.points[Len(calc.points)].audioTime - calc.duration)
           <= 60 * TimeUnitsPerSec

\* C24: the anchors calculateSyncPoints returns have strictly increasing
\* audio times and non-decreasing text positions
C24_MonotoneCurve ==
  calc.pc = "points" =>
     \A i \in 1..(Len(calc.points) - 1) :
        /\ calc.points[i].audioTime < calc.points[i + 1].audioTime
        /\ calc.points[i].textIndex <= calc.points[i + 1].textIndex

\* the first bracketing pair of the lookup made, 0 when there is none
FirstBracket ==
  LET hits == Brackets(calc.points, calc.audioTime)
  IN IF hits = {} THEN 0 ELSE CHOOSE j \in hits : \A k \in hits : j <= k

\* twice the exact interpolated position between the points i and i + 1,
\* times the width of the bracket
TwiceExact(i) ==
  LET a == calc.points[i]
      b == calc.points[i + 1]
  IN 2 * (a.textIndex * (b.audioTime - a.audioTime)
            + (calc.audioTime - a.audioTime) * (b.textIndex - a.textIndex))

\* C25: the lookup returns 0 for an empty list, the text position of the
\* anchor for a list of one, the text position of a when the bracketing
\* anchors a and b have the same audio time, and otherwise the integer
\* nearest to the linear interpolation between a and b (halves upwards)
C25_Interpolation ==
  calc.pc = "interpolated" =>
     /\ Len(calc.points) = 0 => calc.textIndex = 0
     /\ Len(calc.points) = 1 => calc.textIndex = calc.points[1].textIndex
     /\ (Len(calc.points) >= 2 /\ FirstBracket # 0) =>
           LET a == calc.points[FirstBracket]
               b == calc.points[FirstBracket + 1]
               width == b.audioTime - a.audioTime
           IN IF width = 0 THEN calc.textIndex = a.textIndex
              ELSE /\ 2 * width * calc.textIndex
                        <= TwiceExact(FirstBracket) + width
                   /\ TwiceExact(FirstBracket) + width
                        < 2 * width * (calc.textIndex + 1)

\* a lookup fell strictly inside a bracket at a position that is not a whole
\* number of characters
C25_Witness ==
  /\ calc.pc = "interpolated"
  /\ Len(calc.points) >= 2 /\ FirstBracket # 0
  /\ LET a == calc.points[FirstBracket]
         b == calc.points[FirstBracket + 1]
     IN /\ a.audioTime < calc.audioTime /\ calc.audioTime < b.audioTime
        /\ TwiceExact(FirstBracket) % (2 * (b.audioTime - a.audioTime)) # 0

\* the probe of startProgressiveSync found no match in this step
ProbeFallsBack(i) ==
  /\ tasks[i].kind = "start" /\ tasks[i].pc = "probe"
  /\ tasks'[i] = ChunkTask(0, FallbackChunkSize, -1)

\* C26: when the initial probe finds no match, the anchor (audio time 0,
\* text position 0) is in syncAnchors before the first chunk is synced
C26_FallbackAnchor ==
  [][\A i \in Slots :
       ProbeFallsBack(i) =>
          \E j \in 1..Len(session'.syncAnchors) :
             /\ session'.syncAnchors[j].audioTime = 0
             /\ session'.syncAnchors[j].textIndex = 0]_vars


\* C27: the reader's advance-requested flag, once set by an advance request,
\* is cleared only when the observed syncedUpToWord has grown, that is, only
\* in a step that finds the session's frontier past lastSyncedWord
C27_FlagClearedOnGrowth ==
  [][(advanceRequested /\ ~advanceRequested')
       => session.syncedUpToWord > lastSyncedWord]_vars

\* C28: while playback runs, the position scheduled through the debounce
\* hook is flushed within the 5 s delay: no position waits in lastValueRef
\* for longer than the delay while the audio plays
C28_FlushedWithinDelay ==
  debounce.isPlaying => debounce.waited <= DebounceDelay

\* a step of the pause handler that answers with the session
PauseAnswered ==
  requests' = requests + 1 /\ reply'.op = "pause" /\ reply'.res = "ok"

C30_MergeIdempotent ==
  MergeAnchors(session.syncAnchors, <<>>) = session.syncAnchors

\* the splitter has returned the chunks it extracted from a large file
ChunksExtracted == RunAt("full", "transcribe") /\ run.large

\* C31: cleanupChunks is idempotent and complete: after one call on the list
\* the splitter returned every chunk of the list (in the blob store or
\* local) and the working directory are gone, and a second call on the same
\* list changes nothing
C31_CleanupChunksIdempotent ==
  ChunksExtracted =>
    LET once == CleanupChunks(run.chunks, artefacts)
    IN /\ CleanupChunks(run.chunks, once) = once
       /\ \A j \in 1..Len(run.chunks) : ChunkFile(run.chunks[j]) \notin once
       /\ LocalDir \notin once

\* the file name ends, in any letter case, with an extension of the kind
HasListedExtension(name, kind) ==
  \E e \in UploadRules[kind].extensions :
     /\ Len(name) >= Len(e)
     /\ ToLowerCase(SubSeq(name, Len(name) - Len(e) + 1, Len(name))) = e

WithinMaximum(size, kind) == size <= UploadRules[kind].maxSizeMb * MAX_MB

MimeAccepted(type, kind) == type = "" \/ type \in UploadRules[kind].mimeTypes

\* C32: validateUploadFile returns valid exactly when the name has an
\* extension listed for the kind, the size is at most the kind's maximum and
\* the MIME type is empty or listed for the kind; an invalid result carries
\* an error that names a check the file fails
C32_ValidateUploadFile ==
  validation.pc = "validated" =>
    LET v == validation
    IN /\ v.valid <=> /\ HasListedExtension(v.name, v.kind)
                      /\ WithinMaximum(v.size, v.kind)
                      /\ MimeAccepted(v.type, v.kind)
       /\ v.valid <=> v.error = "none"
       /\ v.error = "File is missing an extension."
            => \A j \in 1..Len(v.name) : v.name[j] # "."
       /\ v.error = "Unsupported file type."
            => ~HasListedExtension(v.name, v.kind)
       /\ v.error = "File is too large." => ~WithinMaximum(v.size, v.kind)
       /\ v.error = "Unexpected MIME type" => ~MimeAccepted(v.type, v.kind)

\* an audio file of exactly the maximum size, with an upper-case extension
\* and a listed MIME type, was found valid
C32_Witness ==
  /\ validation.pc = "validated" /\ validation.valid
  /\ validation.kind = "audio"
  /\ validation.size = 500 * MAX_MB
  /\ validation.name = <<"t", ".", "M", "4", "b">>
  /\ validation.type = "audio/ogg"

AnchorsOf(list) == {list[j] : j \in 1..Len(list)}

\* the step in which the chunk run i commits
CommitStep(i) ==
  /\ tasks[i].kind = "chunk" /\ tasks[i].pc = "work"
  /\ tasks'[i] = NoTask
  /\ reply' = Reply("chunk", "true")

\* the anchor is in the list, or the list holds an anchor near it that is at
\* least as confident
KeptOrReplaced(a, list) ==
  \/ a \in AnchorsOf(list)
  \/ \E b \in AnchorsOf(list) : Near(a, b) /\ b.confidence >= a.confidence

\* the anchors the initial probe of startProgressiveSync can write
ProbeAnchors ==
  {Anchor(t, x, c) : t \in ProbeTimes, x \in ProbeIndexes, c \in Confidences}

\* C33: no lost update of syncAnchors: the commit of a chunk run keeps every
\* anchor that another chunk run committed after this run read the session
C33_NoLostAnchors ==
  [][\A i \in Slots :
       CommitStep(i) =>
         \A a \in (AnchorsOf(session.syncAnchors)
                    \ AnchorsOf(tasks[i].snapAnchors)) \ ProbeAnchors :
            KeptOrReplaced(a, session'.syncAnchors)]_vars

\* C34: a complete session stays complete under every later step (pause,
\* resume, advance, late chunk commit or chunk failure), and a session whose
\* whole book is synced is not left in processing or paused
C34_CompleteIsFinal ==
  [][/\ session.status = "complete" => session'.status = "complete"
     /\ session'.syncedUpToWord >= TotalWords
          => session'.status \notin {"processing", "paused"}]_vars

\* the retry handler has reset progress of a session that had synced words
Retried(s) == s.progress = 0 /\ s.syncedUpToWord > 0

\* C35: retrying a failed progressive session does not discard the anchors
\* committed before the failure: every step of the retried
\* startProgressiveSync run keeps each anchor of syncAnchors, unless the
\* merge replaced it by a nearby anchor at least as confident
C35_RetryKeepsAnchors ==
  [][\A i \in Slots :
       (tasks[i].kind = "start" /\ tasks'[i] # tasks[i] /\ Retried(session))
         => \A a \in AnchorsOf(session.syncAnchors) :
               KeptOrReplaced(a, session'.syncAnchors)]_vars

\* C36: after a failure followed by a retry, with the reader playing towards
\* the frontier and no further failure, auto-advance requests the chunks
\* that remain and the session reaches complete
C36_RetryCompletes ==
  (session.status = "error") ~> (session.status = "complete")

\* C37: every full-mode run that was started ends, and it ends with the
\* session in status complete or error
C37_FullRunEnds ==
  \A i \in Slots :
     (tasks[i].kind = "full")
       ~> (tasks[i].kind = "none" /\ session.status \in {"complete", "error"})

\* a run went through two chunks and ended with the session complete, and a
\* retried run ended too
C37_Witness ==
  /\ \A i \in Slots : tasks[i] = NoTask
  /\ reply = Reply("full", "complete")
  /\ session.status = "complete"
  /\ session.currentChunk = 2
  /\ requests > 0

\* the run in slot i is in flight before and after the step
RunContinues(i) == tasks[i].kind = "full" /\ tasks'[i].kind = "full"

\* the step is the transcription of the next chunk of the run in slot i
ChunkTranscribed(i) ==
  /\ RunContinues(i)
  /\ tasks[i].pc = "chunks"
  /\ tasks'[i].currentChunk = tasks[i].currentChunk + 1

\* C38: in a full sync the chunk count is recorded with currentChunk 0 before
\* the first chunk, the chunks are transcribed one after the other, after
\* chunk i the session has currentChunk = i + 1 and
\* progress = 35 + floor(35 * (i + 1) / totalChunks), currentChunk never
\* exceeds totalChunks, and the session's progress never decreases while the
\* run is in flight
C38_FullChunkProgress ==
  [][\A i \in Slots :
       /\ RunContinues(i) /\ tasks[i].pc = "split" /\ tasks'[i].pc = "chunks"
            => /\ session'.totalChunks = tasks'[i].totalChunks
               /\ session'.currentChunk = 0
               /\ tasks'[i].currentChunk = 0
       /\ ChunkTranscribed(i)
            => /\ session'.currentChunk = tasks[i].currentChunk + 1
               /\ session'.totalChunks = tasks[i].totalChunks
               /\ session'.progress
                    = 35 + (35 * (tasks[i].currentChunk + 1))
                             \div tasks[i].totalChunks
       /\ RunContinues(i)
            => /\ session'.currentChunk <= session'.totalChunks
               /\ session'.progress >= session.progress]_vars

\* the offsets at which the words of the text start
WordStarts(text) ==
  {k \in 0..(Len(text) - 1) :
     text[k + 1] # " " /\ (k = 0 \/ text[k] = " ")}

\* the offset at which word i of the text starts, counting from 0
WordStart(text, i) ==
  CHOOSE k \in WordStarts(text) :
     Cardinality({j \in WordStarts(text) : j < k}) = i

\* C39: every window that findTextMatches records carries the offset in the
\* text at which the window's first word starts
C39_WindowOffsets ==
  [][(windows.pc = "loop" /\ Len(windows'.chunks) = Len(windows.chunks) + 1)
       => windows'.chunks[Len(windows'.chunks)].index
            = WordStart(windows.text, windows.i)]_vars
====
